---------------------------- MODULE Spec2Model ----------------------------
(***************************************************************************)
(* Model of the claude-notify daemon core: the socket server               *)
(* (daemon/server.py), the orchestrator (daemon/main.py), the session      *)
(* registry and state machine (tracker/registry.py, tracker/state.py), the *)
(* event classifier (tracker/events.py) and the notification adapter       *)
(* boundary (gnome/notifications.py).                                      *)
(*                                                                         *)
(* Two specifications share the registry and session operators:            *)
(*   Spec     the daemon: one accept loop and one worker thread per        *)
(*            accepted connection, interleaved at every access to shared   *)
(*            state (the code holds no lock anywhere);                     *)
(*   ApiSpec  a single-threaded caller of the registry, session and        *)
(*            classifier API, as the unit tests use it.                    *)
(*                                                                         *)
(* Python values: None of an Optional[str] / Optional[State] is the string *)
(* "None"; None of an Optional[int] / Optional[float] is 0 (notification   *)
(* ids and clock readings start at 1, and the code tests those fields by   *)
(* truthiness only, which treats None and 0 alike).  A session object is   *)
(* its index in heap, so object identity is index equality.                *)
(***************************************************************************)
EXTENDS Integers, Sequences, FiniteSets, TLC

\* ------------------------------------------------------------------ bounds
\* Connections the accept loop takes during one run (one worker each).
MaxConns == 2
\* Calls made by the single-threaded API caller of ApiSpec.
MaxOps == 4
\* Calls of shutdown() from outside the server (signal handler, other threads).
MaxShutdowns == 2

\* ------------------------------------------------------------ value domains
None == "None"

\* tracker/state.py: class State
WORKING == "working"
NEEDS_ATTENTION == "needs_attention"
SESSION_LIMIT == "session_limit"
API_ERROR == "api_error"
State == {WORKING, NEEDS_ATTENTION, SESSION_LIMIT, API_ERROR}

\* tracker/events.py: the two membership sets
WORKING_EVENTS == {"PreToolUse", "PostToolUse", "UserPromptSubmit", "SessionStart"}
NEEDS_ATTENTION_EVENTS == {"Stop", "SubagentStop", "Notification"}

\* Event names given to the classifier: both sets, the end-of-session event,
\* the parser's default, and names outside every set (case matters).
EventNames ==
    WORKING_EVENTS \cup NEEDS_ATTENTION_EVENTS
        \cup {"SessionEnd", "Unknown", "PreCompact", "stop", ""}

SessionIds == {"s1", "s2"}
Cwds == {"/home/u/proj", "/tmp/other"}
Messages == {"m1", "m2"}

\* ------------------------------------------------------- dictionaries (JSON)
\* A JSON object / an env mapping is a function from its keys.
Get(d, k, default) == IF k \in DOMAIN d THEN d[k] ELSE default

EmptyDict == [k \in {} |-> None]

\* ---------------------------------------------------------------- classifier
\* tracker/events.py: parse_hook_event (the fields the daemon reads)
parse_hook_event(claude_data) ==
    [event_name |-> Get(claude_data, "hook_event_name", "Unknown"),
     session_id |-> Get(claude_data, "session_id", ""),
     cwd        |-> Get(claude_data, "cwd", ""),
     message    |-> Get(claude_data, "message", None)]

\* A classifier whose default is to raise the alarm.
determine_state_default_attention(event_name) ==
    IF event_name \in WORKING_EVENTS THEN WORKING ELSE NEEDS_ATTENTION

\* A classifier that reports an event outside both sets as an API error.
determine_state_unknown_is_error(event_name) ==
    IF event_name \in WORKING_EVENTS THEN WORKING
    ELSE IF event_name \in NEEDS_ATTENTION_EVENTS THEN NEEDS_ATTENTION
    ELSE API_ERROR

\* tracker/events.py: determine_state_from_event
determine_state_from_event(event_name) ==
    IF event_name \in WORKING_EVENTS THEN WORKING
    ELSE IF event_name \in NEEDS_ATTENTION_EVENTS THEN NEEDS_ATTENTION
    ELSE WORKING

\* ------------------------------------------------------------ friendly names
\* An id is the sequence of its characters.  SURR is a lone surrogate, a
\* character a Python str can hold (json.loads of "\\ud800" yields it) and
\* UTF-8 cannot encode.
SURR == "U+D800"

\* tracker/friendly_names.py: ADJECTIVES and NOUNS
ADJECTIVES ==
    <<"bold", "swift", "cosmic", "bright", "calm", "eager", "fair", "gentle",
      "happy", "keen", "lively", "merry", "noble", "proud", "quick", "ready",
      "smart", "true", "vivid", "warm", "wise", "young", "zesty", "agile",
      "brave", "clear", "deft", "epic", "fresh", "grand", "humble", "ideal">>

NOUNS ==
    <<"cat", "eagle", "dragon", "wolf", "bear", "hawk", "lion", "tiger",
      "fox", "owl", "raven", "shark", "whale", "deer", "horse", "falcon",
      "phoenix", "griffin", "panther", "cobra", "jaguar", "orca", "puma", "lynx",
      "badger", "otter", "crane", "heron", "swan", "viper", "raptor", "condor">>

\* Python: `seq[seed % len(seq)]`
pick(seq, seed) == seq[(seed % Len(seq)) + 1]

\* tracker/friendly_names.py: `session_id.replace("-", "")`
remove_dashes(t) == SelectSeq(t, LAMBDA ch : ch # "-")

\* Python: the slice t[a:b]
slice(t, a, b) == SubSeq(t, a + 1, IF b < Len(t) THEN b ELSE Len(t))

\* The value of a base-16 digit.
HexDigit ==
    [ch \in {"0", "1", "2", "3", "4", "5", "6", "7", "8", "9",
             "a", "b", "c", "d", "e", "f"} |->
        CASE ch = "0" -> 0 [] ch = "1" -> 1 [] ch = "2" -> 2 [] ch = "3" -> 3
          [] ch = "4" -> 4 [] ch = "5" -> 5 [] ch = "6" -> 6 [] ch = "7" -> 7
          [] ch = "8" -> 8 [] ch = "9" -> 9 [] ch = "a" -> 10 [] ch = "b" -> 11
          [] ch = "c" -> 12 [] ch = "d" -> 13 [] ch = "e" -> 14 [] ch = "f" -> 15]

RECURSIVE hex_value(_)
hex_value(t) ==
    IF t = <<>> THEN 0
    ELSE 16 * hex_value(SubSeq(t, 1, Len(t) - 1)) + HexDigit[t[Len(t)]]

\* Python: int(t, 16), on the characters ids are made of here: an optional
\* sign, then one digit or more; anything else is a ValueError.  (White
\* space around the numeral, a 0x prefix and underscores between digits,
\* which int() accepts as well, are made of characters left out here; a
\* minus sign never reaches it, the dashes being removed.)
int16(t) ==
    LET digits == IF t # <<>> /\ t[1] = "+" THEN Tail(t) ELSE t
    IN  IF digits # <<>> /\ \A i \in 1 .. Len(digits) : digits[i] \in DOMAIN HexDigit
        THEN [raised |-> None, value |-> hex_value(digits)]
        ELSE [raised |-> "ValueError", value |-> 0]

\* The code point of a character.
ord(ch) ==
    CASE ch \in DOMAIN HexDigit ->
            IF HexDigit[ch] < 10 THEN 48 + HexDigit[ch] ELSE 87 + HexDigit[ch]
      [] ch = "+" -> 43
      [] ch = "-" -> 45
      [] ch = "g" -> 103
      [] ch = "s" -> 115
      [] OTHER -> 55296

\* Python: `session_id.encode()`: UTF-8 has no encoding of a lone surrogate.
encode_error(t) ==
    IF \E i \in 1 .. Len(t) : t[i] = SURR THEN "UnicodeEncodeError" ELSE None

\* tracker/friendly_names.py: `int(hashlib.sha256(...).hexdigest()[:16], 16)`,
\* as its two 32-bit words.  SHA-256 is not computed: a fixed function of
\* the text stands in for it, and nothing below relies on more than that
\* the digest is a function of the text whose words are natural numbers.
RECURSIVE digest_fold(_, _)
digest_fold(t, acc) ==
    IF t = <<>> THEN acc
    ELSE digest_fold(Tail(t), (31 * acc + ord(Head(t))) % 65521)

sha256_head(t) ==
    [low |-> digest_fold(t, 7), high |-> digest_fold(t, 11) + Len(t)]

\* What generate_friendly_name returns: the name as its three parts, and
\* which seeds it was built from ("hex" or "hash"); or what it raised.
Named(adj_seed, noun_seed, seeds) ==
    [raised |-> None, seeds |-> seeds,
     name |-> <<pick(ADJECTIVES, adj_seed), "-", pick(NOUNS, noun_seed)>>]

NoName == [raised |-> None, seeds |-> None, name |-> <<>>]

\* tracker/friendly_names.py: generate_friendly_name.  The two int() calls
\* are in the try block; the hash is computed in the except block, so what
\* `session_id.encode()` raises there leaves the function.
generate_friendly_name(session_id) ==
    LET clean_id == remove_dashes(session_id)
        adj  == int16(slice(clean_id, 0, 8))
        noun == int16(slice(clean_id, 8, 16))
        h    == sha256_head(session_id)
    IN  IF adj.raised = None /\ noun.raised = None
        THEN Named(adj.value, noun.value, "hex")
        ELSE IF encode_error(session_id) # None
             THEN [NoName EXCEPT !.raised = encode_error(session_id)]
             ELSE Named(h.low, h.high, "hash")

\* The characters of the session ids the daemon is driven with.
IdText(session_id) ==
    CASE session_id = "s1" -> <<"s", "1">>
      [] session_id = "s2" -> <<"s", "2">>
      [] OTHER -> <<>>

\* ------------------------------------------------------------- session state
\* A test that only None fails, the empty string passing.
is_not_none(s) == s # None

\* Python truthiness of an Optional[str]
Truthy(s) == s # None /\ s # ""

\* tracker/state.py: SessionState.__init__ / __post_init__ (dataclass defaults).
\* __post_init__ sets friendly_name to generate_friendly_name(session_id); for
\* an id it raises on, no session is constructed (none of the daemon's ids).
SessionState(session_id, cwd, terminal_uuid, now) ==
    [session_id            |-> session_id,
     cwd                   |-> cwd,
     terminal_uuid         |-> terminal_uuid,
     state                 |-> WORKING,
     activity              |-> "",
     friendly_name         |-> generate_friendly_name(IdText(session_id)).name,
     persistent_notif_id   |-> 0,
     popup_notif_id        |-> 0,
     last_update           |-> now,
     needs_attention_since |-> 0]

\* tracker/state.py: transition_to, the early return `if self.state == new_state`
transition_is_noop(s, new_state) == s.state = new_state

\* tracker/state.py: transition_to, `self.state = new_state` and
\* `self.last_update = time.time()`
transition_write_state(s, new_state, now) ==
    [s EXCEPT !.state = new_state, !.last_update = now]

\* tracker/state.py: transition_to, the if/else that sets or clears
\* needs_attention_since
transition_write_since(s, new_state, now) ==
    [s EXCEPT !.needs_attention_since =
                  IF new_state = NEEDS_ATTENTION THEN now ELSE 0]

\* tracker/state.py: transition_to, the writes after the early return; `now`
\* is the first of the two time.time() readings it takes.
transition_write(s, new_state, now) ==
    transition_write_since(transition_write_state(s, new_state, now), new_state, now + 1)

\* A transition that stamps the session even when the state stays the same.
transition_to_always_stamps(s, new_state, now) ==
    [session |-> transition_write(s, new_state, now),
     ret     |-> IF s.state = new_state THEN None ELSE s.state]

\* tracker/state.py: SessionState.transition_to, as one call: the session
\* after it and the value returned.
transition_to(s, new_state, now) ==
    IF transition_is_noop(s, new_state)
    THEN [session |-> s, ret |-> None]
    ELSE [session |-> transition_write(s, new_state, now), ret |-> s.state]

\* An update that shows the activity text as the session's name.
update_activity_renames(s, activity, now) ==
    [s EXCEPT !.activity = activity, !.friendly_name = <<activity>>, !.last_update = now]

\* tracker/state.py: SessionState.update_activity
update_activity(s, activity, now) ==
    [s EXCEPT !.activity = activity, !.last_update = now]

\* tracker/state.py: project_name, `self.cwd.rstrip("/")`, on a cwd given as
\* the sequence of its characters
RECURSIVE rstrip_slash(_)
rstrip_slash(t) ==
    IF t # <<>> /\ t[Len(t)] = "/" THEN rstrip_slash(SubSeq(t, 1, Len(t) - 1)) ELSE t

\* tracker/state.py: project_name, `.split("/")[-1]`: what follows the last
\* separator, the whole text when there is none
last_segment(t) ==
    LET sep == {i \in 1 .. Len(t) : t[i] = "/"}
    IN  IF sep = {} THEN t
        ELSE SubSeq(t, (CHOOSE i \in sep : \A j \in sep : j <= i) + 1, Len(t))

\* tracker/state.py: SessionState.project_name
project_name(cwd) == last_segment(rstrip_slash(cwd))

\* ------------------------------------------------------------- wire messages
\* What one reporter does on its connection.  peer: "stalled" (connects and
\* never closes), "empty" (closes without a byte), "not_utf8" (bytes that do
\* not decode), "bad_envelope" (first line is not the envelope JSON), or
\* "message" (a well-formed envelope and a payload block).  payload:
\* "unparsable" (not JSON), "null" (the JSON null, which json.loads turns
\* into None), "non_object" (any other JSON value that is no object: an
\* array, a string, a number, a boolean) or "object".
Wire(peer, env, payload, claude_data) ==
    [peer |-> peer, env |-> env, payload |-> payload, claude_data |-> claude_data]

NoWire == Wire("none", EmptyDict, "none", EmptyDict)

EnvWith(terminal) ==
    IF terminal = None THEN EmptyDict
    ELSE [k \in {"GNOME_TERMINAL_SCREEN"} |-> terminal]

EventObject(name, sid, cwd, message) ==
    [k \in {"hook_event_name", "session_id", "cwd"}
           \cup (IF message = None THEN {} ELSE {"message"}) |->
        CASE k = "hook_event_name" -> name
          [] k = "session_id" -> sid
          [] k = "cwd" -> cwd
          [] OTHER -> message]

\* Event names the daemon is driven with: one working event, one
\* needs-attention event and the end of the session.
DaemonEvents == {"PreToolUse", "Stop", "SessionEnd"}
DaemonCwds == {"/home/u/proj"}

\* The terminal handle and the message text a connection may carry: each
\* connection has its own, so that any two differ.
ConnTerminals == <<"term-A", "term-B", "term-C", "term-D">>
ConnMessages == <<"m1", "m2", "m3", "m4">>

EventWires(c) ==
    {Wire("message", EnvWith(t), "object", EventObject(n, i, d, m)) :
        t \in {None, ConnTerminals[c]}, n \in DaemonEvents, i \in SessionIds,
        d \in DaemonCwds, m \in {None, ConnMessages[c]}}

BadWires ==
    {Wire(p, EmptyDict, "none", EmptyDict) :
        p \in {"stalled", "empty", "not_utf8", "bad_envelope"}}
        \cup {Wire("message", EmptyDict, k, EmptyDict) :
                 k \in {"unparsable", "null", "non_object"}}

\* What connection number c may carry.
Wires(c) == EventWires(c) \cup BadWires

\* A connection is well formed when its handler can run to the end.
WellFormed(w) == w.peer = "message" /\ w.payload = "object"

\* daemon/server.py: `data.decode("utf-8")` and hook/protocol.py:
\* decode_hook_message.  The exception raised, or None.
decode_error(w) ==
    CASE w.peer = "not_utf8" -> "UnicodeDecodeError"
      [] w.peer = "bad_envelope" -> "JSONDecodeError"
      [] OTHER -> None

\* hook/protocol.py: decode_hook_message, the HookMessage of a wire text
\* whose envelope parses: claude_data stays None when the payload block is
\* not JSON.
decode_hook_message(w) ==
    [env |-> w.env,
     claude_data_is_none |-> w.payload \in {"unparsable", "null"},
     claude_data_is_object |-> w.payload = "object",
     claude_data |-> w.claude_data]

\* The exception classes the model raises; all derive from Exception.
Exceptions ==
    {"UnicodeDecodeError", "JSONDecodeError", "AttributeError", "KeyError",
     "DBusException", "TypeError"}

\* An except clause that names the errors of decoding and of look-ups only.
catches_no_attribute_error(exc) == exc \in Exceptions \ {"AttributeError"}

\* An except clause that names only the decoding errors.
catches_value_errors_only(exc) == exc \in {"UnicodeDecodeError", "JSONDecodeError"}

\* daemon/server.py: _handle_connection, `except Exception`
catches(exc) == exc \in Exceptions

\* A handler that lets a null payload through as an event with default fields.
is_malformed_never(message) == FALSE

\* daemon/main.py: handle_message, `if message.claude_data is None`
is_malformed(message) == message.claude_data_is_none

\* ------------------------------------------------------- the codec, as text
\* hook/protocol.py works on text.  A text is a sequence of characters; the
\* characters that matter to the codec have names: the line feed, the
\* space, the double quote and the backslash.  Any other element stands for
\* itself ("a", "{", ":"), a longer one ("version", "12") for the run of
\* letters or digits it spells.
LF == "LF"
SP == "SP"
DQ == "DQ"
BS == "BS"

\* str.strip() removes white space at both ends; json skips it between tokens.
Whitespace == {LF, SP}

\* JSON values as Python holds them: None, True, a number, a str, a dict.
JNone == [kind |-> "none", text |-> <<>>, items |-> <<>>]
JTrue == [kind |-> "true", text |-> <<>>, items |-> <<>>]
JNum(tok) == [kind |-> "number", text |-> <<tok>>, items |-> <<>>]
JStr(s) == [kind |-> "string", text |-> s, items |-> <<>>]
JObj(f) == [kind |-> "object", text |-> <<>>, items |-> f]

\* A dict of one item, and dict item assignment `d[k] = v`.
Item(k, v) == [x \in {k} |-> v]
SetItem(f, k, v) == [x \in DOMAIN f \cup {k} |-> IF x = k THEN v ELSE f[x]]

\* The numerals a text may hold.
MaxNumeral == 64
Numerals == {ToString(n) : n \in 0 .. MaxNumeral}

RECURSIVE lstrip(_)
lstrip(t) == IF t # <<>> /\ Head(t) \in Whitespace THEN lstrip(Tail(t)) ELSE t

RECURSIVE rstrip(_)
rstrip(t) ==
    IF t # <<>> /\ t[Len(t)] \in Whitespace THEN rstrip(SubSeq(t, 1, Len(t) - 1)) ELSE t

\* A decoder that takes the text as it came.
strip_nothing(t) == t

\* hook/protocol.py: decode_hook_message, `data.strip()`
strip(t) == rstrip(lstrip(t))

\* hook/protocol.py: decode_hook_message, `.split("\n", 1)`: the text before
\* the first line feed and the whole text after it, or the one text.
split_first_newline(t) ==
    LET nl == {i \in 1 .. Len(t) : t[i] = LF}
        first == CHOOSE i \in nl : \A j \in nl : i <= j
    IN  IF nl = {} THEN <<t>>
        ELSE <<SubSeq(t, 1, first - 1), SubSeq(t, first + 1, Len(t))>>

\* json.dumps of a str: the characters JSON does not allow inside a string
\* are written as escapes.
RECURSIVE escape(_)
escape(s) ==
    IF s = <<>> THEN <<>>
    ELSE (CASE Head(s) = DQ -> <<BS, DQ>>
            [] Head(s) = BS -> <<BS, BS>>
            [] Head(s) = LF -> <<BS, "n">>
            [] OTHER -> <<Head(s)>>) \o escape(Tail(s))

\* The order json.dumps writes the keys of a dict in (insertion order; the
\* model fixes one order per key set).
RECURSIVE KeyOrder(_)
KeyOrder(ks) ==
    IF ks = {} THEN <<>>
    ELSE LET k == CHOOSE x \in ks : TRUE IN <<k>> \o KeyOrder(ks \ {k})

\* json.dumps(v, separators=(",", ":"))
RECURSIVE dumps(_)
dumps(v) ==
    CASE v.kind = "number" -> v.text
      [] v.kind = "string" -> <<DQ>> \o escape(v.text) \o <<DQ>>
      [] v.kind = "none" -> <<"null">>
      [] v.kind = "true" -> <<"true">>
      [] OTHER ->
           LET ks == KeyOrder(DOMAIN v.items)
               member(i) == (IF i = 1 THEN <<>> ELSE <<",">>)
                               \o <<DQ>> \o escape(ks[i]) \o <<DQ, ":">>
                               \o dumps(v.items[ks[i]])
               join[i \in 0 .. Len(ks)] == IF i = 0 THEN <<>> ELSE join[i - 1] \o member(i)
           IN  <<"{">> \o join[Len(ks)] \o <<"}">>

\* json.loads: the result of reading one value of text t from position i:
\* whether there is one, the position after it, and the value.
Fail == [ok |-> FALSE, next |-> 0, value |-> JNone]
Ok(n, v) == [ok |-> TRUE, next |-> n, value |-> v]

RECURSIVE skip_ws(_, _)
skip_ws(t, i) == IF i <= Len(t) /\ t[i] \in Whitespace THEN skip_ws(t, i + 1) ELSE i

\* json.loads, a string from the character after its opening quote: up to
\* the closing quote, escapes undone; a raw line feed and an unknown
\* escape are errors.
RECURSIVE scan_string(_, _, _)
scan_string(t, i, acc) ==
    IF i > Len(t) THEN Fail
    ELSE IF t[i] = DQ THEN Ok(i + 1, JStr(acc))
    ELSE IF t[i] = LF THEN Fail
    ELSE IF t[i] = BS
         THEN IF i + 1 > Len(t) THEN Fail
              ELSE IF t[i + 1] = DQ THEN scan_string(t, i + 2, Append(acc, DQ))
              ELSE IF t[i + 1] = BS THEN scan_string(t, i + 2, Append(acc, BS))
              ELSE IF t[i + 1] = "n" THEN scan_string(t, i + 2, Append(acc, LF))
              ELSE Fail
    ELSE scan_string(t, i + 1, Append(acc, t[i]))

\* json.loads, a value: a string, a number, null, true or an object.
RECURSIVE parse_value(_, _)
RECURSIVE parse_members(_, _, _)
parse_value(t, i0) ==
    LET i == skip_ws(t, i0)
    IN  IF i > Len(t) THEN Fail
        ELSE IF t[i] = DQ THEN scan_string(t, i + 1, <<>>)
        ELSE IF t[i] \in Numerals THEN Ok(i + 1, JNum(t[i]))
        ELSE IF t[i] = "null" THEN Ok(i + 1, JNone)
        ELSE IF t[i] = "true" THEN Ok(i + 1, JTrue)
        ELSE IF t[i] = "{"
             THEN LET j == skip_ws(t, i + 1)
                  IN  IF j <= Len(t) /\ t[j] = "}" THEN Ok(j + 1, JObj(<<>>))
                      ELSE parse_members(t, j, <<>>)
        ELSE Fail

\* json.loads, the members of an object from the quote of a key: `"k":v`,
\* then a comma and the next member, or the closing brace.
parse_members(t, i, items) ==
    IF i > Len(t) \/ t[i] # DQ THEN Fail
    ELSE LET k == scan_string(t, i + 1, <<>>)
             c == skip_ws(t, k.next)
             v == parse_value(t, c + 1)
             d == skip_ws(t, v.next)
             its == SetItem(items, k.value.text, v.value)
         IN  IF ~k.ok THEN Fail
             ELSE IF c > Len(t) \/ t[c] # ":" THEN Fail
             ELSE IF ~v.ok THEN Fail
             ELSE IF d > Len(t) THEN Fail
             ELSE IF t[d] = "}" THEN Ok(d + 1, JObj(its))
             ELSE IF t[d] = "," THEN parse_members(t, skip_ws(t, d + 1), its)
             ELSE Fail

\* json.loads(t): one value and nothing but white space after it; not ok
\* stands for JSONDecodeError.
loads(t) ==
    LET v == parse_value(t, 1)
    IN  IF v.ok /\ skip_ws(t, v.next) > Len(t) THEN v ELSE Fail

\* hook/protocol.py: PROTOCOL_VERSION
PROTOCOL_VERSION == 1

\* The keys of the envelope ("custom") blob.
EnvelopeKeys == {<<"version">>, <<"timestamp">>, <<"env">>, <<"claude_size">>}

\* hook/protocol.py: encode_hook_message, the dict of the custom blob
custom_dict(version, timestamp, env_data, claude_size) ==
    JObj([k \in EnvelopeKeys |->
            CASE k = <<"version">> -> JNum(ToString(version))
              [] k = <<"timestamp">> -> JNum(ToString(timestamp))
              [] k = <<"env">> -> env_data
              [] OTHER -> JNum(ToString(claude_size))])

\* hook/protocol.py: encode_hook_message; timestamp is the reading of
\* time.time() it takes.
encode_hook_message(claude_data, env_data, timestamp) ==
    LET claude_blob == dumps(claude_data)
        claude_size == Len(claude_blob)
        custom_blob == dumps(custom_dict(PROTOCOL_VERSION, timestamp, env_data, claude_size))
    IN  custom_blob \o <<LF>> \o claude_blob \o <<LF>>

\* hook/protocol.py: HookMessage, or the exception decode_hook_message raised
HookMessage(raised, version, timestamp, env, claude_size, claude_data, claude_raw) ==
    [raised |-> raised, version |-> version, timestamp |-> timestamp, env |-> env,
     claude_size |-> claude_size, claude_data |-> claude_data, claude_raw |-> claude_raw]

NoMessage(exc) == HookMessage(exc, JNone, JNone, JNone, JNone, JNone, <<>>)

\* hook/protocol.py: decode_hook_message, on the text it is given
decode_hook_text(data) ==
    LET lines == split_first_newline(strip(data))
        custom == loads(lines[1])
        claude_raw == IF Len(lines) > 1 THEN lines[2] ELSE <<>>
        parsed == loads(claude_raw)
        claude_data == IF claude_raw # <<>> /\ parsed.ok THEN parsed.value ELSE JNone
        it == custom.value.items
    IN  IF ~custom.ok THEN NoMessage("JSONDecodeError")
        ELSE IF custom.value.kind # "object" THEN NoMessage("TypeError")
        ELSE IF ~({<<"version">>, <<"timestamp">>, <<"claude_size">>} \subseteq DOMAIN it)
             THEN NoMessage("KeyError")
        ELSE HookMessage(None, it[<<"version">>], it[<<"timestamp">>],
                         Get(it, <<"env">>, JObj(<<>>)), it[<<"claude_size">>],
                         claude_data, claude_raw)

\* -------------------------------------------------------------------- state
VARIABLES
    running,        \* DaemonServer._running
    server,         \* DaemonServer._server: None, "created" or "listening"
    loop,           \* where the main thread is: start, bind, set_running, check,
                    \* accept, accepting, finally, finally_raise, returned, started
                    \* (start() returned to a direct caller), or the
                    \* method an exception left: start_raised, accept_raised,
                    \* once_raised
    nconn,          \* connections accepted so far; connection c has worker c
    entry,          \* the method the main thread called: serve_forever, serve_once
                    \* or start
    environ,        \* os.environ: LISTEN_FDS and LISTEN_PID, where set
    path,           \* the file at the socket path: absent, stale, or the bound socket
    shutdowns,      \* calls of shutdown() made so far
    worker,         \* per connection: the worker thread's position and locals
    sessions,       \* SessionRegistry._sessions: id -> session object (heap index)
    heap,           \* every SessionState object ever constructed
    listeners,      \* len(SessionRegistry._listeners)
    delivered,      \* the listener calls made, in order
    notifications,  \* Daemon.notifications is not None
    live,           \* notification ids the desktop currently displays
    nextId,         \* the desktop's next fresh notification id
    dismissed,      \* ids dismiss() was called with
    now,            \* the next reading of time.time()
    ops,            \* ApiSpec: calls made so far
    last,           \* ApiSpec: the last call, its arguments and what it returned
    listing,        \* ApiSpec: the lists the last call returned
    codec,          \* CodecSpec: the text on the wire, who wrote it, and what
                    \* decode_hook_message made of it
    conn,           \* ConnSpec: one connection, the text its peer sends and
                    \* where _handle_connection is with it
    hook,           \* HookSpec, PipeSpec: one run of the reporter (run_hook)
    dump,           \* DumpSpec: where dump_state is and what it has written
    project,        \* ProjectSpec: a cwd and the project_name read off it
    friendly        \* FriendlySpec: an id and what generate_friendly_name
                    \* made of it

vars == <<running, server, loop, nconn, entry, environ, path, shutdowns, worker,
          sessions, heap, listeners, delivered, notifications, live, nextId,
          dismissed, now, ops, last, listing, codec, conn, hook, dump,
          project, friendly>>

serverVars == <<running, server, loop, nconn, entry, environ, path, shutdowns>>
registryVars == <<sessions, heap, listeners, delivered>>
adapterVars == <<live, nextId, dismissed>>
callVars == <<ops, last, listing>>
apiVars == <<callVars, codec, conn, hook, dump, project, friendly>>

Conns == 1 .. MaxConns

\* A worker thread's locals.  `session` is the local variable of
\* handle_message (0 before it is bound).  The rest records what the thread
\* did: `invoked` that the message handler was called, `after` the
\* connections that were already closed when it was called, `shows` the
\* number of show_persistent calls, `args` the arguments of the last one,
\* `handle` what it returned (0: nothing), `dismiss_raised` that a
\* CloseNotification call of its cleanup failed, and `outcome` how the connection
\* ended: "open", "empty", "dropped", "handled", the exception that was
\* caught, or "escaped".
IdleWorker ==
    [pc |-> "new", wire |-> NoWire, session |-> 0, invoked |-> FALSE, after |-> {},
     shows |-> 0, args |-> [state |-> None, activity |-> "", replaces_id |-> 0],
     handle |-> 0, dismiss_raised |-> FALSE, outcome |-> "open"]

\* A call of the API caller: the operation, the session id or the session
\* object it was given, its other argument, and the session object (0: None)
\* or the state (None) it returned.
Call(op, id, obj, arg, ret_obj, ret) ==
    [op |-> op, id |-> id, obj |-> obj, arg |-> arg, ret_obj |-> ret_obj, ret |-> ret]

NoCall == Call("none", "", 0, "", 0, None)

\* The lists a call returned: all() and by_state(s) for each state s.  A
\* list of session objects is kept as the set of its elements: the values of
\* the mapping are distinct objects, one constructed per stored id.
NoListing == [all |-> {}, by_state |-> [s \in State |-> {}]]

\* A text on its way from a sender to the decoder.  `sender` is "hook" (the
\* text is encode_hook_message(claude_data, env_data)) or "foreign" (an
\* envelope line carrying env_data, written by somebody else); `payload` is
\* the text of the payload block; `message` what the decoder returned, once
\* `decoded`.
Sent(sender, claude_data, env_data, payload, text) ==
    [sender |-> sender, claude_data |-> claude_data, env_data |-> env_data,
     payload |-> payload, text |-> text, decoded |-> FALSE, message |-> NoMessage(None)]

NoCodec == Sent("none", JNone, JNone, <<>>, <<>>)

\* One connection of _handle_connection, seen at the level of its bytes:
\* `text` is what the peer sends before it closes, `utf8` whether those bytes
\* decode, `rest` what recv() has yet to return, `data` the local variable,
\* `invoked` the number of calls of the message handler, `message` what it
\* was called with, `raised` the exception the except clause logged, and
\* `closed` that conn.close() was called.
Connection(text, utf8) ==
    [pc |-> "recv", text |-> text, utf8 |-> utf8, rest |-> text, data |-> <<>>,
     invoked |-> 0, message |-> NoMessage(None), raised |-> None, closed |-> FALSE]

NoConn == [Connection(<<>>, TRUE) EXCEPT !.pc = "none"]

\* One run of run_hook: its standard input, the daemon it finds ("server":
\* the modelled one; else "listening", "missing", "refused" or "timeout"),
\* os.environ, its locals claude_data, env_data and message, `parse_error`
\* that json.loads failed, `sent` the text that reached the daemon,
\* `swallowed` the exception the except clause passed over, and what the
\* run ended with: `ret` (-1: nothing yet), or `escaped` the exception that
\* left run_hook.
HookRun(stdin_data, daemon, env) ==
    [pc |-> "parse", stdin_data |-> stdin_data, daemon |-> daemon, environ |-> env,
     parse_error |-> FALSE, claude_data |-> JNone, env_data |-> JNone,
     message |-> <<>>, sent |-> <<>>,
     swallowed |-> None, escaped |-> None, ret |-> -1]

NoHook == [HookRun(<<>>, "none", <<>>) EXCEPT !.pc = "none"]

\* dump_state: `count` the number in the header line, `todo` the sessions of
\* the list it iterates over that it has yet to come to, `lines` the lines
\* it has appended, each with the fields the line shows.
NoDump == [pc |-> "none", count |-> 0, todo |-> {}, lines |-> {}]

\* A cwd and the project_name property read off a session constructed with it.
NoProject == [cwd |-> <<>>, read |-> FALSE, project_name |-> <<>>]

\* An id and what generate_friendly_name returned for it, or raised.
NoFriendly == [session_id |-> <<>>, called |-> FALSE, ret |-> NoName]

\* The daemon as constructed (daemon/main.py: Daemon.__init__,
\* daemon/server.py: DaemonServer.__init__), its main thread about to call
\* method e of the server, in environment env, with p at the socket path.
Constructed(e, env, p) ==
    /\ running = FALSE
    /\ server = None
    /\ loop = "start"
    /\ nconn = 0
    /\ entry = e
    /\ environ = env
    /\ path = p
    /\ shutdowns = 0
    /\ worker = [c \in Conns |-> IdleWorker]
    /\ sessions = EmptyDict
    /\ heap = <<>>
    /\ listeners = 0
    /\ delivered = <<>>
    /\ notifications \in BOOLEAN
    /\ live = {}
    /\ nextId = 1
    /\ dismissed = {}
    /\ now = 1
    /\ ops = 0
    /\ last = NoCall
    /\ listing = NoListing
    /\ codec = NoCodec
    /\ conn = NoConn
    /\ hook = NoHook
    /\ dump = NoDump
    /\ project = NoProject
    /\ friendly = NoFriendly

Init == Constructed("serve_forever", EmptyDict, "absent")

\* ------------------------------------------------------------------ registry
\* tracker/registry.py: _notify, the calls it makes: one per listener, in
\* subscription order.
notify(log, n, event, obj) ==
    log \o [i \in 1 .. n |-> [listener |-> i, event |-> event, session |-> obj]]

\* A registry that never finds the id it is asked to register.
registry_contains_never(reg, session_id) == FALSE

\* tracker/registry.py: register, `if session_id in self._sessions`
registry_contains(reg, session_id) == session_id \in DOMAIN reg

\* tracker/registry.py: get
registry_get(reg, session_id) == Get(reg, session_id, 0)

\* tracker/registry.py: all, `list(self._sessions.values())`
all(reg) == {reg[k] : k \in DOMAIN reg}

\* A filter that counts every session outside NEEDS_ATTENTION as working.
by_state_working_unless_attention(reg, hp, state) ==
    {o \in all(reg) :
        IF state = WORKING THEN hp[o].state # NEEDS_ATTENTION ELSE hp[o].state = state}

\* tracker/registry.py: by_state,
\* `[s for s in self._sessions.values() if s.state == state]`
by_state(reg, hp, state) == {o \in all(reg) : hp[o].state = state}

\* tracker/registry.py: register, `self._sessions[session_id] = session`
registry_store(reg, session_id, obj) ==
    [k \in DOMAIN reg \cup {session_id} |-> IF k = session_id THEN obj ELSE reg[k]]

\* A pop that empties the mapping.
registry_pop_every(reg, session_id) == EmptyDict

\* tracker/registry.py: unregister, `self._sessions.pop(session_id, None)`:
\* the mapping afterwards
registry_pop(reg, session_id) == [k \in DOMAIN reg \ {session_id} |-> reg[k]]

\* ----------------------------------------------------------------- the server
\* What is not the server's: the server's own steps leave it alone.
daemonVars == <<worker, registryVars, notifications, adapterVars, now, apiVars>>

\* daemon/server.py: start, up to `self._server = socket.socket(...)`: the
\* directory is ensured, a leftover file at the socket path is unlinked, and
\* a new socket is created and stored.  The environment is not consulted.
StartSocket ==
    /\ loop = "start"
    /\ path' = "absent"
    /\ server' = "created"
    /\ loop' = "bind"
    /\ UNCHANGED <<running, nconn, entry, environ, shutdowns, daemonVars>>

\* daemon/server.py: start, `self._server.bind(...)`, `.listen(10)` and
\* `.settimeout(1.0)`: each loads self._server, and raises AttributeError
\* once shutdown() has put None there (the three are one step: a shutdown
\* between them ends in the same exception, one statement later).
StartBind ==
    /\ loop = "bind"
    /\ IF server = None
       THEN /\ loop' = IF entry = "serve_once" THEN "finally_raise" ELSE "start_raised"
            /\ UNCHANGED <<server, path>>
       ELSE /\ server' = "listening"
            /\ path' = "socket"
            /\ loop' = "set_running"
    /\ UNCHANGED <<running, nconn, entry, environ, shutdowns, daemonVars>>

\* Where the caller of start() goes on: serve_once calls _accept_one,
\* serve_forever tests `while self._running`, a direct caller has it back.
after_start(e) ==
    IF e = "serve_once" THEN "accept" ELSE IF e = "start" THEN "started" ELSE "check"

\* daemon/server.py: start, `self._running = True`
StartRunning ==
    /\ loop = "set_running"
    /\ running' = TRUE
    /\ loop' = after_start(entry)
    /\ UNCHANGED <<server, nconn, entry, environ, path, shutdowns, daemonVars>>

\* daemon/server.py: serve_forever, `while self._running`
LoopCheck ==
    /\ loop = "check"
    /\ loop' = IF running THEN "accept" ELSE "returned"
    /\ UNCHANGED <<running, server, nconn, entry, environ, path, shutdowns, daemonVars>>

\* Where _accept_one returns to: the loop test of serve_forever, or the
\* `finally` of serve_once.
after_accept(e) == IF e = "serve_once" THEN "finally" ELSE "check"

\* daemon/server.py: _accept_one, `self._server.accept` is loaded: on None
\* (shutdown() ran since the loop's test) that raises AttributeError, which
\* neither except clause names, so it leaves _accept_one and serve_forever.
AcceptLoad ==
    /\ loop = "accept"
    /\ loop' = IF server # None THEN "accepting"
               ELSE IF entry = "serve_once" THEN "finally_raise" ELSE "accept_raised"
    /\ UNCHANGED <<running, server, nconn, entry, environ, path, shutdowns, daemonVars>>

\* A server that calls the connection handler itself: the loop is back at
\* accept() only when the handler has returned.
awaits_handler_inline(w) == w.pc \notin {"new", "done"}

\* daemon/server.py: _accept_one, `threading.Thread(target=self._handle_connection,
\* args=(conn,), daemon=True).start()` returns as soon as the thread is
\* started and nothing joins it: the loop waits for no handler.
awaits_handler(w) == FALSE

\* daemon/server.py: _accept_one, accept() returns a connection carrying one
\* of `wires`: a thread is started on _handle_connection with it.
AcceptFrom(wires) ==
    /\ loop = "accepting"
    /\ server = "listening"
    /\ nconn < MaxConns
    /\ \A c \in Conns : ~awaits_handler(worker[c])
    /\ \E w \in wires :
          worker' = [worker EXCEPT ![nconn + 1] =
                        [IdleWorker EXCEPT !.pc = "recv", !.wire = w]]
    /\ nconn' = nconn + 1
    /\ loop' = after_accept(entry)
    /\ UNCHANGED <<running, server, entry, environ, path, shutdowns, registryVars,
                   notifications, adapterVars, now, apiVars>>

AcceptConnection == AcceptFrom(Wires(nconn + 1))

\* daemon/server.py: _accept_one, accept() times out after a second
AcceptTimeout ==
    /\ loop = "accepting"
    /\ server = "listening"
    /\ loop' = after_accept(entry)
    /\ UNCHANGED <<running, server, nconn, entry, environ, path, shutdowns, daemonVars>>

\* daemon/server.py: _accept_one, accept() on the socket that shutdown()
\* closed meanwhile raises OSError: `except OSError: pass`
AcceptClosed ==
    /\ loop = "accepting"
    /\ server # "listening"
    /\ loop' = after_accept(entry)
    /\ UNCHANGED <<running, server, nconn, entry, environ, path, shutdowns, daemonVars>>

\* A shutdown that returns early when the server is not running.
socket_after_shutdown_if_running(srv, run) == IF run THEN None ELSE srv

\* daemon/server.py: shutdown, `if self._server: self._server.close();
\* self._server = None`: what self._server is afterwards
socket_after_shutdown(srv, run) == None

\* daemon/server.py: shutdown, as one call: _running cleared, the socket
\* closed and forgotten, the socket path unlinked (a missing file ignored).
shutdown ==
    /\ running' = FALSE
    /\ server' = socket_after_shutdown(server, running)
    /\ path' = "absent"

\* daemon/server.py: shutdown, called by the signal handler of
\* daemon/main.py: run (handle_shutdown), which runs between two steps of
\* the main thread, or by another thread.
Shutdown ==
    /\ shutdowns < MaxShutdowns
    /\ shutdowns' = shutdowns + 1
    /\ shutdown
    /\ UNCHANGED <<loop, nconn, entry, environ, daemonVars>>

\* daemon/server.py: serve_once, `finally: self.shutdown()`, after which
\* serve_once returns, or the exception goes on to its caller.
OnceShutdown ==
    /\ loop \in {"finally", "finally_raise"}
    /\ shutdowns' = shutdowns + 1
    /\ shutdown
    /\ loop' = IF loop = "finally" THEN "returned" ELSE "once_raised"
    /\ UNCHANGED <<nconn, entry, environ, daemonVars>>

\* ------------------------------------------------------ connection workers
\* The worker's decoded message and parsed event (thread-local values).
MessageOf(c) == decode_hook_message(worker[c].wire)
EventOf(c) == parse_hook_event(MessageOf(c).claude_data)
TerminalOf(c) == Get(MessageOf(c).env, "GNOME_TERMINAL_SCREEN", None)

At(c, label) == worker[c].pc = label
Goto(c, label) == worker' = [worker EXCEPT ![c].pc = label]

\* daemon/server.py: _handle_connection returns: `finally: conn.close()`.
Finish(c, outcome) ==
    worker' = [worker EXCEPT ![c].pc = "done", ![c].outcome = outcome]

\* daemon/server.py: _handle_connection, an exception raised inside the try
\* block: caught and logged, or leaving the thread; the connection is closed
\* either way.
Raise(c, exc) == Finish(c, IF catches(exc) THEN exc ELSE "escaped")

\* daemon/server.py: _handle_connection, the read loop, the decoding and the
\* call of the message handler.  A stalled peer keeps recv() blocked.
Recv(c) ==
    /\ At(c, "recv")
    /\ worker[c].wire.peer # "stalled"
    /\ IF worker[c].wire.peer = "empty" THEN Finish(c, "empty")
       ELSE IF decode_error(worker[c].wire) # None
            THEN Raise(c, decode_error(worker[c].wire))
            ELSE worker' = [worker EXCEPT
                     ![c].pc = "handle",
                     ![c].invoked = TRUE,
                     ![c].after = {d \in Conns : worker[d].pc = "done"}]
    /\ UNCHANGED <<serverVars, registryVars, notifications, adapterVars, now, apiVars>>

\* daemon/main.py: handle_message up to `session = self.registry.get(...)`
HandleMessage(c) ==
    /\ At(c, "handle")
    /\ IF is_malformed(MessageOf(c)) THEN Finish(c, "dropped")
       ELSE IF ~MessageOf(c).claude_data_is_object THEN Raise(c, "AttributeError")
       ELSE worker' = [worker EXCEPT
                ![c].session = registry_get(sessions, EventOf(c).session_id),
                ![c].pc = IF registry_get(sessions, EventOf(c).session_id) = 0
                          THEN "register" ELSE "terminal"]
    /\ UNCHANGED <<serverVars, registryVars, notifications, adapterVars, now, apiVars>>

\* tracker/registry.py: register, the membership test
RegisterCheck(c) ==
    /\ At(c, "register")
    /\ Goto(c, IF registry_contains(sessions, EventOf(c).session_id)
               THEN "register_hit" ELSE "register_new")
    /\ UNCHANGED <<serverVars, registryVars, notifications, adapterVars, now, apiVars>>

\* tracker/registry.py: register, `return self._sessions[session_id]`
\* (KeyError when the entry was removed since the test)
RegisterHit(c) ==
    /\ At(c, "register_hit")
    /\ IF registry_contains(sessions, EventOf(c).session_id)
       THEN worker' = [worker EXCEPT ![c].session = sessions[EventOf(c).session_id],
                                     ![c].pc = "terminal"]
       ELSE Raise(c, "KeyError")
    /\ UNCHANGED <<serverVars, registryVars, notifications, adapterVars, now, apiVars>>

\* tracker/registry.py: register, a new SessionState is constructed, stored
\* and announced
RegisterNew(c) ==
    /\ At(c, "register_new")
    /\ heap' = Append(heap, SessionState(EventOf(c).session_id, EventOf(c).cwd,
                                         TerminalOf(c), now))
    /\ now' = now + 1
    /\ sessions' = registry_store(sessions, EventOf(c).session_id, Len(heap) + 1)
    /\ delivered' = notify(delivered, listeners, "session_registered", Len(heap) + 1)
    /\ worker' = [worker EXCEPT ![c].session = Len(heap) + 1, ![c].pc = "terminal"]
    /\ UNCHANGED <<serverVars, listeners, notifications, adapterVars, apiVars>>

\* daemon/main.py: handle_message, `if terminal_uuid and not session.terminal_uuid`
TerminalCheck(c) ==
    /\ At(c, "terminal")
    /\ Goto(c, IF Truthy(TerminalOf(c)) /\ ~Truthy(heap[worker[c].session].terminal_uuid)
               THEN "terminal_set" ELSE "transition")
    /\ UNCHANGED <<serverVars, registryVars, notifications, adapterVars, now, apiVars>>

\* daemon/main.py: handle_message, `session.terminal_uuid = terminal_uuid`
TerminalSet(c) ==
    /\ At(c, "terminal_set")
    /\ heap' = [heap EXCEPT ![worker[c].session].terminal_uuid = TerminalOf(c)]
    /\ Goto(c, "transition")
    /\ UNCHANGED <<serverVars, sessions, listeners, delivered, notifications,
                   adapterVars, now, apiVars>>

\* daemon/main.py: handle_message, determine_state_from_event and the test
\* that opens transition_to
TransitionCheck(c) ==
    /\ At(c, "transition")
    /\ Goto(c, IF transition_is_noop(heap[worker[c].session],
                                     determine_state_from_event(EventOf(c).event_name))
               THEN "activity" ELSE "transition_write")
    /\ UNCHANGED <<serverVars, registryVars, notifications, adapterVars, now, apiVars>>

\* tracker/state.py: transition_to, the writes of state and last_update
TransitionWrite(c) ==
    /\ At(c, "transition_write")
    /\ heap' = [heap EXCEPT ![worker[c].session] =
                   transition_write_state(@, determine_state_from_event(EventOf(c).event_name),
                                          now)]
    /\ now' = now + 1
    /\ Goto(c, "transition_stamp")
    /\ UNCHANGED <<serverVars, sessions, listeners, delivered, notifications,
                   adapterVars, apiVars>>

\* tracker/state.py: transition_to, the write of needs_attention_since that
\* follows (other threads run between the two), and the return
TransitionStamp(c) ==
    /\ At(c, "transition_stamp")
    /\ heap' = [heap EXCEPT ![worker[c].session] =
                   transition_write_since(@, determine_state_from_event(EventOf(c).event_name),
                                          now)]
    /\ now' = now + 1
    /\ Goto(c, "activity")
    /\ UNCHANGED <<serverVars, sessions, listeners, delivered, notifications,
                   adapterVars, apiVars>>

\* daemon/main.py: handle_message, `if event.message: session.update_activity(...)`
Activity(c) ==
    /\ At(c, "activity")
    /\ IF Truthy(EventOf(c).message)
       THEN /\ heap' = [heap EXCEPT ![worker[c].session] =
                           update_activity(@, EventOf(c).message, now)]
            /\ now' = now + 1
       ELSE UNCHANGED <<heap, now>>
    /\ Goto(c, "notify")
    /\ UNCHANGED <<serverVars, sessions, listeners, delivered, notifications,
                   adapterVars, apiVars>>

\* daemon/main.py: handle_message after _update_notifications:
\* `if event.event_name == "SessionEnd"`, else the handler returns.
AfterNotify(w, c) ==
    IF EventOf(c).event_name = "SessionEnd"
    THEN [w EXCEPT ![c].pc = "cleanup"]
    ELSE [w EXCEPT ![c].pc = "done", ![c].outcome = "handled"]

\* A refresh that always asks for a new notification.
replaces_id_always_new(s) == 0

\* daemon/main.py: _update_notifications, `replaces_id=session.persistent_notif_id or 0`
replaces_id_of(s) == s.persistent_notif_id

\* daemon/main.py: _update_notifications, the early return without an
\* adapter, else the arguments of show_persistent are read off the session
\* and the call is made.
NotifyCall(c) ==
    /\ At(c, "notify")
    /\ IF ~notifications THEN worker' = AfterNotify(worker, c)
       ELSE worker' = [worker EXCEPT
                ![c].pc = "notify_wait",
                ![c].shows = @ + 1,
                ![c].args = [state       |-> heap[worker[c].session].state,
                             activity    |-> heap[worker[c].session].activity,
                             replaces_id |-> replaces_id_of(heap[worker[c].session])]]
    /\ UNCHANGED <<serverVars, registryVars, notifications, adapterVars, now, apiVars>>

\* gnome/notifications.py: show_persistent, the id the desktop service
\* answers Notify with: the replaced id while that notification is shown,
\* a fresh one for replaces_id 0; for a replaced id that is no longer
\* shown the service may answer either.
notify_ids(shown, fresh, replaces_id) ==
    IF replaces_id = 0 THEN {fresh}
    ELSE IF replaces_id \in shown THEN {replaces_id}
    ELSE {replaces_id, fresh}

\* daemon/main.py: _update_notifications, `session.persistent_notif_id = notif_id`
stored_handle(s, notif_id) == [s EXCEPT !.persistent_notif_id = notif_id]

\* daemon/main.py: _update_notifications, show_persistent returns
NotifyReturn(c) ==
    /\ At(c, "notify_wait")
    /\ \E id \in notify_ids(live, nextId, worker[c].args.replaces_id) :
          /\ live' = live \cup {id}
          /\ nextId' = IF id = nextId THEN nextId + 1 ELSE nextId
          /\ heap' = [heap EXCEPT ![worker[c].session] = stored_handle(@, id)]
          /\ worker' = AfterNotify([worker EXCEPT ![c].handle = id], c)
    /\ UNCHANGED <<serverVars, sessions, listeners, delivered, notifications,
                   dismissed, now, apiVars>>

\* A refresh with no try block around the adapter call.
update_notifications_catches_nothing(exc) == FALSE

\* daemon/main.py: _update_notifications, `except Exception`
update_notifications_catches(exc) == exc \in Exceptions

\* daemon/main.py: _update_notifications, show_persistent raises (the
\* D-Bus call of gnome/notifications.py fails): logged, nothing stored
NotifyRaise(c) ==
    /\ At(c, "notify_wait")
    /\ IF update_notifications_catches("DBusException")
       THEN worker' = AfterNotify(worker, c)
       ELSE Raise(c, "DBusException")
    /\ UNCHANGED <<serverVars, registryVars, notifications, adapterVars, now, apiVars>>

\* A cleanup that dismisses nothing.
handles_to_dismiss_none(s, has_adapter) == {}

\* daemon/main.py: _cleanup_session, the handles dismiss() is called with
handles_to_dismiss(s, has_adapter) ==
    {h \in {s.persistent_notif_id, s.popup_notif_id} : has_adapter /\ h # 0}

\* daemon/main.py: _cleanup_session, the two dismiss calls
\* (gnome/notifications.py: dismiss swallows the D-Bus error of an id that
\* is already closed)
Cleanup(c) ==
    /\ At(c, "cleanup")
    /\ dismissed' = dismissed \cup handles_to_dismiss(heap[worker[c].session], notifications)
    /\ live' = live \ handles_to_dismiss(heap[worker[c].session], notifications)
    /\ Goto(c, "unregister")
    /\ UNCHANGED <<serverVars, registryVars, notifications, nextId, now, apiVars>>

\* A dismiss with no try block around the D-Bus call.
dismiss_catches_nothing(exc) == FALSE

\* gnome/notifications.py: dismiss, `except dbus.DBusException: pass`
dismiss_catches(exc) == exc = "DBusException"

\* daemon/main.py: _cleanup_session, a dismiss call whose CloseNotification
\* fails with a D-Bus error (the id is already closed, or the service is
\* gone: the desktop shows it no longer).  dismiss swallows the error and
\* the cleanup goes on; an error dismiss did not swallow would leave
\* _cleanup_session, which has no try block, before the unregister.
CleanupRaise(c) ==
    /\ At(c, "cleanup")
    /\ handles_to_dismiss(heap[worker[c].session], notifications) # {}
    /\ dismissed' = dismissed \cup handles_to_dismiss(heap[worker[c].session], notifications)
    /\ live' = live \ handles_to_dismiss(heap[worker[c].session], notifications)
    /\ IF dismiss_catches("DBusException")
       THEN worker' = [worker EXCEPT ![c].pc = "unregister", ![c].dismiss_raised = TRUE]
       ELSE worker' = [worker EXCEPT ![c].pc = "done", ![c].dismiss_raised = TRUE,
                                     ![c].outcome = IF catches("DBusException")
                                                    THEN "DBusException" ELSE "escaped"]
    /\ UNCHANGED <<serverVars, registryVars, notifications, nextId, now, apiVars>>

\* An unregister that announces the session and keeps the entry.
unregister_keeps_entry(reg, session_id) == reg

\* tracker/registry.py: unregister, the mapping afterwards
unregister_mapping(reg, session_id) == registry_pop(reg, session_id)

\* daemon/main.py: _cleanup_session, `self.registry.unregister(session.session_id)`
\* (tracker/registry.py: unregister), after which the handler returns.
Unregister(c) ==
    /\ At(c, "unregister")
    /\ sessions' = unregister_mapping(sessions, heap[worker[c].session].session_id)
    /\ delivered' =
          IF registry_get(sessions, heap[worker[c].session].session_id) # 0
          THEN notify(delivered, listeners, "session_unregistered",
                      sessions[heap[worker[c].session].session_id])
          ELSE delivered
    /\ Finish(c, "handled")
    /\ UNCHANGED <<serverVars, heap, listeners, notifications, adapterVars, now, apiVars>>

WorkerStep(c) ==
    \/ Recv(c)
    \/ HandleMessage(c)
    \/ RegisterCheck(c)
    \/ RegisterHit(c)
    \/ RegisterNew(c)
    \/ TerminalCheck(c)
    \/ TerminalSet(c)
    \/ TransitionCheck(c)
    \/ TransitionWrite(c)
    \/ TransitionStamp(c)
    \/ Activity(c)
    \/ NotifyCall(c)
    \/ NotifyReturn(c)
    \/ NotifyRaise(c)
    \/ Cleanup(c)
    \/ CleanupRaise(c)
    \/ Unregister(c)

\* The daemon while it serves: no shutdown is requested.
Next ==
    \/ StartSocket
    \/ StartBind
    \/ StartRunning
    \/ LoopCheck
    \/ AcceptLoad
    \/ AcceptConnection
    \/ AcceptTimeout
    \/ \E c \in Conns : WorkerStep(c)

Spec == Init /\ [][Next]_vars

\* The daemon later in its run: it has handled one event already, a
\* PreToolUse for "s1" from a reporter outside any terminal, with no message
\* text (registered at clock reading 1, shown as notification 1 when there
\* is an adapter); that connection is closed and its thread is gone.
RunningInit ==
    /\ running = FALSE
    /\ server = None
    /\ loop = "start"
    /\ nconn = 0
    /\ entry = "serve_forever"
    /\ environ = EmptyDict
    /\ path = "absent"
    /\ shutdowns = 0
    /\ worker = [c \in Conns |-> IdleWorker]
    /\ notifications \in BOOLEAN
    /\ sessions = registry_store(EmptyDict, "s1", 1)
    /\ heap = <<IF notifications
                THEN stored_handle(SessionState("s1", "/home/u/proj", None, 1), 1)
                ELSE SessionState("s1", "/home/u/proj", None, 1)>>
    /\ listeners = 0
    /\ delivered = <<>>
    /\ live = IF notifications THEN {1} ELSE {}
    /\ nextId = IF notifications THEN 2 ELSE 1
    /\ dismissed = {}
    /\ now = 2
    /\ ops = 0
    /\ last = NoCall
    /\ listing = NoListing
    /\ codec = NoCodec
    /\ conn = NoConn
    /\ hook = NoHook
    /\ dump = NoDump
    /\ project = NoProject
    /\ friendly = NoFriendly

RunningSpec == RunningInit /\ [][Next]_vars

\* The daemon with shutdown() requested at any moment, by the signal handler
\* or by another thread, driven with a few connections only.
ServerWires ==
    {Wire("message", EmptyDict, "object", EventObject("Stop", "s1", "/home/u/proj", None)),
     Wire("message", EnvWith("term-A"), "object",
          EventObject("SessionEnd", "s1", "/home/u/proj", None)),
     Wire("stalled", EmptyDict, "none", EmptyDict),
     Wire("not_utf8", EmptyDict, "none", EmptyDict)}

AcceptServerConnection == AcceptFrom(ServerWires)

ServerNext ==
    \/ StartSocket
    \/ StartBind
    \/ StartRunning
    \/ LoopCheck
    \/ AcceptLoad
    \/ AcceptServerConnection
    \/ AcceptTimeout
    \/ AcceptClosed
    \/ Shutdown
    \/ \E c \in Conns : WorkerStep(c)

ServerSpec == Init /\ [][ServerNext]_vars

\* ------------------------------------------------------- the codec, called
\* Strings of up to n of the characters the codec treats specially, and a
\* plain one.
MaxStr == 2
Chars == {"a", DQ, BS, LF, SP}
Strings(n) == UNION {[1 .. k -> Chars] : k \in 0 .. n}

\* Payloads the hook encodes (hook/main.py: json.loads of its input): an
\* object of no or one string member, a bare string, a number, null.
Payloads ==
    {JObj(<<>>), JNone, JNum("12")}
        \cup {JObj(Item(k, JStr(v))) : k \in Strings(1), v \in Strings(MaxStr)}
        \cup {JStr(v) : v \in Strings(MaxStr)}

\* Environment subsets: string to string, no or one variable.
EnvMaps == {JObj(<<>>)} \cup {JObj(Item(<<"T">>, JStr(v))) : v \in Strings(MaxStr)}

\* Payload blocks a foreign sender may write: any text of up to MaxRaw of
\* these characters.
MaxRaw == 3
RawChars == {"{", "}", DQ, "a", SP, LF}
RawTexts == UNION {[1 .. k -> RawChars] : k \in 0 .. MaxRaw}

\* hook/main.py: run_hook, `message = encode_hook_message(claude_data, env_data)`
CodecEncode(p, env) ==
    /\ codec.sender = "none"
    /\ codec' = Sent("hook", p, env, dumps(p), encode_hook_message(p, env, now))
    /\ now' = now + 1
    /\ UNCHANGED <<serverVars, worker, registryVars, notifications, adapterVars,
                   callVars, conn, hook, dump, project, friendly>>

\* A sender other than the hook writes a well-formed envelope line, a line
\* feed and a payload block, ended by a line feed or not.
CodecForeign(env, raw, end) ==
    /\ codec.sender = "none"
    /\ codec' = Sent("foreign", JNone, env, raw,
                     dumps(custom_dict(PROTOCOL_VERSION, now, env, Len(raw)))
                        \o <<LF>> \o raw \o end)
    /\ now' = now + 1
    /\ UNCHANGED <<serverVars, worker, registryVars, notifications, adapterVars,
                   callVars, conn, hook, dump, project, friendly>>

\* daemon/server.py: _handle_connection, `decode_hook_message(data.decode("utf-8"))`
CodecDecode ==
    /\ codec.sender # "none"
    /\ ~codec.decoded
    /\ codec' = [codec EXCEPT !.decoded = TRUE, !.message = decode_hook_text(codec.text)]
    /\ UNCHANGED <<serverVars, worker, registryVars, notifications, adapterVars,
                   now, callVars, conn, hook, dump, project, friendly>>

CodecNext ==
    \/ \E p \in Payloads, env \in EnvMaps : CodecEncode(p, env)
    \/ \E env \in EnvMaps, raw \in RawTexts, end \in {<<>>, <<LF>>} :
          CodecForeign(env, raw, end)
    \/ CodecDecode

CodecSpec == Init /\ [][CodecNext]_vars

\* ----------------------------------------------- one connection, byte level
\* What is not the connection's.
coreVars == <<serverVars, worker, registryVars, notifications, adapterVars, now, callVars>>

\* An envelope line with the given keys.
EnvelopeWith(keys) ==
    dumps(JObj([k \in keys |-> IF k = <<"env">> THEN JObj(<<>>) ELSE JNum("1")]))

\* First lines a peer may send: an object with any of the envelope's keys,
\* JSON that is no object, and text that is no JSON.
ConnEnvelopes ==
    {EnvelopeWith(ks) : ks \in SUBSET EnvelopeKeys}
        \cup {<<"12">>, dumps(JStr(<<"a">>)), <<"null">>, <<"{">>, <<"a">>}

\* What may follow the first line: nothing, the final line feed, a payload
\* block that parses or not.
ConnEnds == {<<>>, <<LF>>, <<LF, "{", "}">>, <<LF, "{", "}", LF>>, <<LF, "{">>}

\* The texts a peer may send before it closes: none at all, white space
\* only, or a first line and an end, after a stray line feed or not.
ConnTexts ==
    {<<>>, <<LF>>, <<SP, LF>>}
        \cup {l \o x : l \in ConnEnvelopes, x \in ConnEnds}
        \cup {<<LF>> \o EnvelopeWith(EnvelopeKeys) \o x : x \in ConnEnds}

\* The number of characters one recv() returns at most (4096 in the code).
MaxChunk == 8

\* What the message handler may do: return, or raise.
HandlerOutcomes == {None, "AttributeError", "KeyError"}

\* daemon/server.py: _accept_one, a connection is accepted; its peer sends
\* `text` (bytes that decode as UTF-8 or not) and closes.
ConnAccept(text, utf8) ==
    /\ conn.pc = "none"
    /\ conn' = Connection(text, utf8)
    /\ UNCHANGED <<coreVars, codec, hook, dump, project, friendly>>

\* daemon/server.py: _handle_connection, one turn of the read loop: recv()
\* returns the next chunk, or nothing once the peer has closed, and then
\* `if data:` decides between decoding and leaving the try block.
ConnRecv ==
    /\ conn.pc = "recv"
    /\ IF conn.rest # <<>>
       THEN LET n == IF Len(conn.rest) < MaxChunk THEN Len(conn.rest) ELSE MaxChunk
            IN  conn' = [conn EXCEPT !.data = @ \o SubSeq(conn.rest, 1, n),
                                     !.rest = SubSeq(conn.rest, n + 1, Len(conn.rest))]
       ELSE conn' = [conn EXCEPT !.pc = IF conn.data # <<>> THEN "decode" ELSE "finally"]
    /\ UNCHANGED <<coreVars, codec, hook, dump, project, friendly>>

\* A server that calls the handler with whatever the decoder left.
decoded_always(message) == TRUE

\* daemon/server.py: _handle_connection, `self._handler(message)` is reached
\* when decode_hook_message returned
decoded(message) == message.raised = None

\* daemon/server.py: _handle_connection, `data.decode("utf-8")` and
\* decode_hook_message: an exception of either goes to `except Exception`.
ConnDecode ==
    /\ conn.pc = "decode"
    /\ LET message == IF conn.utf8 THEN decode_hook_text(conn.data)
                      ELSE NoMessage("UnicodeDecodeError")
       IN  IF decoded(message)
           THEN conn' = [conn EXCEPT !.pc = "handler", !.message = message]
           ELSE conn' = [conn EXCEPT !.pc = "finally",
                                     !.raised = IF catches(message.raised)
                                                THEN message.raised ELSE "escaped"]
    /\ UNCHANGED <<coreVars, codec, hook, dump, project, friendly>>

\* daemon/server.py: _handle_connection, `self._handler(message)`: the
\* handler returns or raises.
ConnHandler(outcome) ==
    /\ conn.pc = "handler"
    /\ conn' = [conn EXCEPT !.pc = "finally", !.invoked = @ + 1,
                            !.raised = IF outcome = None \/ catches(outcome)
                                       THEN outcome ELSE "escaped"]
    /\ UNCHANGED <<coreVars, codec, hook, dump, project, friendly>>

\* daemon/server.py: _handle_connection, `finally: conn.close()`
ConnClose ==
    /\ conn.pc = "finally"
    /\ conn' = [conn EXCEPT !.pc = "done", !.closed = TRUE]
    /\ UNCHANGED <<coreVars, codec, hook, dump, project, friendly>>

ConnStep ==
    \/ ConnRecv
    \/ ConnDecode
    \/ \E outcome \in HandlerOutcomes : ConnHandler(outcome)
    \/ ConnClose

ConnNext ==
    \/ \E text \in ConnTexts, utf8 \in BOOLEAN :
          (text = <<>> => utf8) /\ ConnAccept(text, utf8)
    \/ ConnStep

ConnSpec == Init /\ [][ConnNext]_vars

\* --------------------------------------------------------------- the reporter
\* hook/main.py: CAPTURE_ENV_VARS
CAPTURE_ENV_VARS ==
    {<<"GNOME_TERMINAL_SCREEN">>, <<"TERM">>, <<"WINDOWID">>, <<"DISPLAY">>,
     <<"WAYLAND_DISPLAY">>}

\* hook/main.py: run_hook, the loop over CAPTURE_ENV_VARS: the variables
\* that are set and not empty
capture(env) ==
    JObj([k \in {x \in DOMAIN env \cap CAPTURE_ENV_VARS : env[x] # <<>>} |-> JStr(env[k])])

\* hook/main.py: run_hook, `{"_raw": stdin_data, "_parse_error": True}`
fallback_data(stdin_data) ==
    JObj(SetItem(Item(<<"_raw">>, JStr(stdin_data)), <<"_parse_error">>, JTrue))

\* The OSError subclasses the transport raises: the socket path does not
\* exist, nobody listens on it, the send timed out.
OSErrors == {"FileNotFoundError", "ConnectionRefusedError", "timeout"}

\* A reporter that expects only a daemon that is not running.
hook_catches_missing_only(exc) == exc = "FileNotFoundError"

\* hook/main.py: run_hook, `except (socket.error, OSError)`
hook_catches(exc) == exc \in OSErrors

\* What the reporter finds at the socket path.
Transport(h) ==
    IF h.daemon # "server" THEN h.daemon
    ELSE IF server = "listening" THEN "listening"
    ELSE IF path = "absent" THEN "missing" ELSE "refused"

hookFrame == <<serverVars, worker, registryVars, notifications, adapterVars, callVars,
               codec, conn, dump, project, friendly>>

\* hook/main.py: main, `run_hook(sys.stdin.read())`
HookStart(stdin_data, daemon, env) ==
    /\ hook.pc = "none"
    /\ hook' = HookRun(stdin_data, daemon, env)
    /\ UNCHANGED <<hookFrame, now>>

\* hook/main.py: run_hook, `json.loads(stdin_data)` and its except clause
HookParse ==
    /\ hook.pc = "parse"
    /\ LET v == loads(hook.stdin_data)
       IN  hook' = [hook EXCEPT
                       !.pc = "encode",
                       !.parse_error = ~v.ok,
                       !.claude_data = IF v.ok THEN v.value
                                       ELSE fallback_data(hook.stdin_data)]
    /\ UNCHANGED <<hookFrame, now>>

\* hook/main.py: run_hook, the captured environment and
\* `encode_hook_message(claude_data, env_data)`
HookEncode ==
    /\ hook.pc = "encode"
    /\ hook' = [hook EXCEPT
                    !.pc = "connect",
                    !.env_data = capture(hook.environ),
                    !.message = encode_hook_message(hook.claude_data,
                                                    capture(hook.environ), now)]
    /\ now' = now + 1
    /\ UNCHANGED hookFrame

\* hook/main.py: run_hook, an exception inside the try block: passed over,
\* or leaving run_hook
HookRaise(h, exc) ==
    IF hook_catches(exc) THEN [h EXCEPT !.pc = "return", !.swallowed = exc]
    ELSE [h EXCEPT !.pc = "done", !.escaped = exc]

\* hook/main.py: run_hook, `sock.connect(socket_path)`
HookConnect ==
    /\ hook.pc = "connect"
    /\ hook' = CASE Transport(hook) = "missing" -> HookRaise(hook, "FileNotFoundError")
                 [] Transport(hook) = "refused" -> HookRaise(hook, "ConnectionRefusedError")
                 [] OTHER -> [hook EXCEPT !.pc = "send"]
    /\ UNCHANGED <<hookFrame, now>>

\* hook/main.py: run_hook, `sock.sendall(...)` and `sock.close()`: the text
\* reaches the daemon, or the daemon does not read and the send times out.
HookSend ==
    /\ hook.pc = "send"
    /\ hook' = IF Transport(hook) = "timeout" THEN HookRaise(hook, "timeout")
               ELSE [hook EXCEPT !.pc = "return", !.sent = hook.message]
    /\ UNCHANGED <<hookFrame, now>>

\* hook/main.py: run_hook, `return 0`
HookReturn ==
    /\ hook.pc = "return"
    /\ hook' = [hook EXCEPT !.pc = "done", !.ret = 0]
    /\ UNCHANGED <<hookFrame, now>>

HookStep ==
    \/ HookParse
    \/ HookEncode
    \/ HookConnect
    \/ HookSend
    \/ HookReturn

\* What the reporter may be given on standard input: the JSON of an event,
\* of a value that is no object, and any short text.
EventJson(name, sid, cwd) ==
    JObj(SetItem(SetItem(Item(<<"hook_event_name">>, JStr(<<name>>)),
                         <<"session_id">>, JStr(<<sid>>)),
                 <<"cwd">>, JStr(<<cwd>>)))

StdinTexts ==
    {dumps(EventJson(n, "s2", "/home/u/proj")) : n \in DaemonEvents}
        \cup {<<"12">>, <<"null">>, <<"true">>}
        \cup RawTexts

\* The environments the reporter may run in: outside a terminal, inside
\* one, and with the terminal variable set but empty.
HookEnvirons ==
    {<<>>,
     (<<"GNOME_TERMINAL_SCREEN">> :> <<"term-A">>) @@ (<<"HOME">> :> <<"/home/u">>),
     (<<"GNOME_TERMINAL_SCREEN">> :> <<>>) @@ (<<"TERM">> :> <<"xterm">>)}

HookNext ==
    \/ \E stdin_data \in StdinTexts, env \in HookEnvirons,
          daemon \in {"listening", "missing", "refused", "timeout"} :
          HookStart(stdin_data, daemon, env)
    \/ HookStep

HookSpec == Init /\ [][HookNext]_vars

\* ------------------------------------------------- reporter and daemon, piped
\* A text of the codec as the str the daemon's code compares and stores.
Text(s) == IF s = <<>> THEN "" ELSE IF Len(s) = 1 THEN s[1] ELSE ToString(s)

\* A decoded JSON object as the dict parse_hook_event and handle_message
\* read with .get(): str values as str, null as None.
AsDict(v) ==
    IF v.kind # "object" THEN EmptyDict
    ELSE [k \in {Text(x) : x \in DOMAIN v.items} |->
             LET item == v.items[CHOOSE x \in DOMAIN v.items : Text(x) = k]
             IN  CASE item.kind = "string" -> Text(item.text)
                   [] item.kind = "number" -> item.text[1]
                   [] item.kind = "none" -> None
                   [] OTHER -> item.kind]

\* daemon/server.py: _handle_connection on the text a reporter sent, as the
\* connection the workers of the daemon handle: what decode_hook_message
\* makes of it.
WireOf(text) ==
    LET m == decode_hook_text(text)
    IN  IF text = <<>> THEN Wire("empty", EmptyDict, "none", EmptyDict)
        ELSE IF m.raised # None THEN Wire("bad_envelope", EmptyDict, "none", EmptyDict)
        ELSE Wire("message", AsDict(m.env),
                  CASE m.claude_data.kind = "none" -> "unparsable"
                    [] m.claude_data.kind = "object" -> "object"
                    [] OTHER -> "non_object",
                  AsDict(m.claude_data))

\* What the reporter is given in the piped runs: events for the session
\* that is registered and for a new one, and text that is no JSON.
PipeStdin ==
    {dumps(EventJson("Stop", "s1", "/home/u/proj")),
     dumps(EventJson("SessionEnd", "s1", "/home/u/proj")),
     dumps(EventJson("PreToolUse", "s2", "/home/u/proj")),
     <<"12">>, <<"null">>, <<"a">>, <<"{", SP, "a">>}

\* daemon/server.py: _accept_one, accept() returns the reporter's connection
AcceptPipe ==
    /\ hook.sent # <<>>
    /\ nconn = 0
    /\ AcceptFrom({WireOf(hook.sent)})

\* The steps a worker takes when connections do not overlap.
PipeWorkerStep(c) ==
    \/ Recv(c)
    \/ HandleMessage(c)
    \/ RegisterCheck(c)
    \/ RegisterNew(c)
    \/ TerminalCheck(c)
    \/ TerminalSet(c)
    \/ TransitionCheck(c)
    \/ TransitionWrite(c)
    \/ TransitionStamp(c)
    \/ Activity(c)
    \/ NotifyCall(c)
    \/ NotifyReturn(c)
    \/ NotifyRaise(c)
    \/ Cleanup(c)
    \/ CleanupRaise(c)
    \/ Unregister(c)

\* The daemon of RunningInit and one run of the reporter against it.
PipeNext ==
    \/ StartSocket
    \/ StartBind
    \/ StartRunning
    \/ LoopCheck
    \/ AcceptLoad
    \/ AcceptPipe
    \/ AcceptTimeout
    \/ \E c \in Conns : PipeWorkerStep(c)
    \/ \E stdin_data \in PipeStdin, env \in HookEnvirons : HookStart(stdin_data, "server", env)
    \/ HookStep

PipeSpec == RunningInit /\ [][PipeNext]_vars

\* ------------------------------------------------- events one after another
\* What connection number c may carry when reporters run one after another:
\* any event for either session, with no message text, an empty one or the
\* connection's own, from inside a terminal or not.
SerialWires(c) ==
    {Wire("message", EnvWith(t), "object", EventObject(n, i, d, m)) :
        t \in {None, ConnTerminals[c]}, n \in DaemonEvents, i \in SessionIds,
        d \in DaemonCwds, m \in {None, "", ConnMessages[c]}}

\* A reporter connects when the handlers of the connections before it have
\* returned.
AcceptSerial ==
    /\ \A c \in Conns : worker[c].pc \in {"new", "done"}
    /\ AcceptFrom(SerialWires(nconn + 1))

SerialNext ==
    \/ StartSocket
    \/ StartBind
    \/ StartRunning
    \/ LoopCheck
    \/ AcceptLoad
    \/ AcceptSerial
    \/ AcceptTimeout
    \/ \E c \in Conns : PipeWorkerStep(c)

SerialSpec == RunningInit /\ [][SerialNext]_vars

\* ------------------------------------------------------ the diagnostic dump
\* The characters of the working directories the daemon is driven with.
CwdText(cwd) ==
    CASE cwd = "/home/u/proj" -> <<"/", "home", "/", "u", "/", "proj">>
      [] cwd = "/tmp/other" -> <<"/", "tmp", "/", "other">>
      [] OTHER -> <<>>

\* daemon/main.py: dump_state, the line of session s
DumpLineOf(o, s) ==
    [session |-> o, friendly_name |-> s.friendly_name, session_id |-> s.session_id,
     state |-> s.state, project_name |-> Text(project_name(CwdText(s.cwd))),
     notif |-> s.persistent_notif_id]

\* What the dump leaves alone: everything but its own position and output.
dumpFrame == <<coreVars, codec, conn, hook, project, friendly>>

\* daemon/main.py: run, handle_sigusr1 is called: the signal handler runs in
\* the main thread, between two of its steps.
DumpStart ==
    /\ dump.pc = "none"
    /\ dump' = [dump EXCEPT !.pc = "header"]
    /\ UNCHANGED dumpFrame

\* daemon/main.py: dump_state, the header line: `len(self.registry.all())`
DumpHeader ==
    /\ dump.pc = "header"
    /\ dump' = [dump EXCEPT !.pc = "list", !.count = Cardinality(all(sessions))]
    /\ UNCHANGED dumpFrame

\* daemon/main.py: dump_state, `for s in self.registry.all()`: the second
\* call of all()
DumpList ==
    /\ dump.pc = "list"
    /\ dump' = [dump EXCEPT !.pc = "lines", !.todo = all(sessions)]
    /\ UNCHANGED dumpFrame

\* daemon/main.py: dump_state, one turn of the loop (the sessions come in the
\* order they were registered in), or its end and the return
DumpLine ==
    /\ dump.pc = "lines"
    /\ IF dump.todo = {}
       THEN dump' = [dump EXCEPT !.pc = "done"]
       ELSE LET o == CHOOSE x \in dump.todo : \A y \in dump.todo : x <= y
            IN  dump' = [dump EXCEPT !.todo = @ \ {o},
                                     !.lines = @ \cup {DumpLineOf(o, heap[o])}]
    /\ UNCHANGED dumpFrame

\* The connections the daemon is driven with while it is dumped.
DumpWires ==
    {Wire("message", EnvWith("term-A"), "object",
          EventObject("Stop", "s1", "/home/u/proj", None)),
     Wire("message", EmptyDict, "object",
          EventObject("SessionEnd", "s1", "/home/u/proj", None)),
     Wire("message", EmptyDict, "object",
          EventObject("PreToolUse", "s2", "/tmp/other", "m1")),
     Wire("not_utf8", EmptyDict, "none", EmptyDict)}

AcceptDumpConnection == AcceptFrom(DumpWires)

\* The main thread is not inside the signal handler.
DumpIdle == dump.pc \in {"none", "done"}

\* The daemon of RunningInit with one diagnostic signal: the worker threads
\* run on while the main thread is in the handler.
DumpNext ==
    \/ DumpIdle /\ StartSocket
    \/ DumpIdle /\ StartBind
    \/ DumpIdle /\ StartRunning
    \/ DumpIdle /\ LoopCheck
    \/ DumpIdle /\ AcceptLoad
    \/ DumpIdle /\ AcceptDumpConnection
    \/ DumpIdle /\ AcceptTimeout
    \/ \E c \in Conns : WorkerStep(c)
    \/ DumpStart
    \/ DumpHeader
    \/ DumpList
    \/ DumpLine

DumpSpec == RunningInit /\ [][DumpNext]_vars

\* ------------------------------------------------ generate_friendly_name, called
\* Ids: up to MaxPieces pieces, each a run of eight hexadecimal digits (as
\* in a UUID), a shorter run, a dash, a sign, a letter that is no digit, or
\* a lone surrogate; then nothing more, or a last group with the digits
\* that are letters.  Every eight characters cut out of such an id, read as
\* a base-16 integer, are below 2^31.
MaxPieces == 4
IdPieces ==
    {<<"0", "0", "0", "0", "0", "0", "1", "7">>,
     <<"7", "3", "0", "5", "2", "6", "1", "0">>,
     <<"4", "2">>, <<"-">>, <<"+">>, <<"g">>, <<SURR>>}
IdEndings == {<<>>, <<"e", "c", "1", "a">>}

RECURSIVE Joined(_)
Joined(ps) == IF ps = <<>> THEN <<>> ELSE Head(ps) \o Joined(Tail(ps))

FriendlyIds ==
    {Joined(ps) \o ending :
        ps \in UNION {[1 .. k -> IdPieces] : k \in 0 .. MaxPieces}, ending \in IdEndings}

\* A caller picks an id.
FriendlyNew(session_id) ==
    /\ ~friendly.called
    /\ friendly.session_id = <<>>
    /\ session_id # <<>>
    /\ friendly' = [friendly EXCEPT !.session_id = session_id]
    /\ UNCHANGED <<coreVars, codec, conn, hook, dump, project>>

\* tracker/friendly_names.py: generate_friendly_name is called with it (the
\* empty id when none was picked)
FriendlyCall ==
    /\ ~friendly.called
    /\ friendly' = [friendly EXCEPT !.called = TRUE,
                                    !.ret = generate_friendly_name(friendly.session_id)]
    /\ UNCHANGED <<coreVars, codec, conn, hook, dump, project>>

FriendlyNext ==
    \/ \E session_id \in FriendlyIds : FriendlyNew(session_id)
    \/ FriendlyCall

FriendlySpec == Init /\ [][FriendlyNext]_vars

\* ------------------------------------------------------ project_name, read
\* Working directories: texts of up to MaxPath separators and letters.
MaxPath == 4
PathChars == {"/", "a", "b"}
WorkingDirs == UNION {[1 .. k -> PathChars] : k \in 0 .. MaxPath}

\* tracker/state.py: SessionState(session_id, cwd): a session is constructed
\* with a working directory
ProjectNew(cwd) ==
    /\ ~project.read
    /\ project.cwd = <<>>
    /\ cwd # <<>>
    /\ project' = [project EXCEPT !.cwd = cwd]
    /\ UNCHANGED <<coreVars, codec, conn, hook, dump, friendly>>

\* tracker/state.py: SessionState.project_name is read
ProjectRead ==
    /\ ~project.read
    /\ project' = [project EXCEPT !.read = TRUE, !.project_name = project_name(project.cwd)]
    /\ UNCHANGED <<coreVars, codec, conn, hook, dump, friendly>>

ProjectNext ==
    \/ \E cwd \in WorkingDirs : ProjectNew(cwd)
    \/ ProjectRead

ProjectSpec == Init /\ [][ProjectNext]_vars

\* start() called directly on a new server (tests/test_socket_activation.py),
\* in every environment a service supervisor or a shell may leave: the
\* descriptor count and the pid each unset, numeric or not numeric, the pid
\* the daemon's own or another; at the socket path nothing, a file left by
\* a crashed instance, or the socket the supervisor bound.
OwnPid == "4242"
ListenFds == {"1", "not-a-number"}
ListenPids == {OwnPid, "99999", "not-a-number"}

Environs ==
    {[k \in {"LISTEN_FDS", "LISTEN_PID"} |-> IF k = "LISTEN_FDS" THEN f ELSE p] :
        f \in ListenFds, p \in ListenPids}
        \cup {[k \in {"LISTEN_FDS"} |-> f] : f \in ListenFds}
        \cup {[k \in {"LISTEN_PID"} |-> p] : p \in ListenPids}
        \cup {EmptyDict}

Paths == {"absent", "stale", "supervisor"}

ActivationInit == \E env \in Environs, p \in Paths : Constructed("start", env, p)

ActivationNext ==
    \/ StartSocket
    \/ StartBind
    \/ StartRunning
    \/ Shutdown

ActivationSpec == ActivationInit /\ [][ActivationNext]_vars

\* The steps of the main thread inside serve_forever().
MainThread ==
    \/ StartSocket
    \/ StartBind
    \/ StartRunning
    \/ LoopCheck
    \/ AcceptLoad
    \/ AcceptServerConnection
    \/ AcceptTimeout
    \/ AcceptClosed

\* The main thread keeps running: every statement of start() and of the
\* loop completes, and accept() returns within its one-second timeout.
ServerFairSpec == ServerSpec /\ WF_vars(MainThread)

\* serve_forever() with no shutdown requested, its reporters among
\* ServerWires (one of them stalls), and every thread scheduled again and
\* again: the main thread's statements complete and accept() returns within
\* its timeout; a worker thread that can take a step takes it.
StallMain ==
    \/ StartSocket
    \/ StartBind
    \/ StartRunning
    \/ LoopCheck
    \/ AcceptLoad
    \/ AcceptServerConnection
    \/ AcceptTimeout

StallNext ==
    \/ StallMain
    \/ \E c \in Conns : WorkerStep(c)

StallSpec ==
    /\ Init
    /\ [][StallNext]_vars
    /\ WF_vars(StallMain)
    /\ \A c \in Conns : WF_vars(WorkerStep(c))

\* serve_once() called on a new server (tests/test_server.py); nobody else
\* calls shutdown().  One connection at most is accepted, so no worker finds
\* an entry a concurrent worker stored (register_hit, terminal_set).
OnceInit == Constructed("serve_once", EmptyDict, "absent")

OnceWorkerStep(c) ==
    \/ Recv(c)
    \/ HandleMessage(c)
    \/ RegisterCheck(c)
    \/ RegisterNew(c)
    \/ TerminalCheck(c)
    \/ TransitionCheck(c)
    \/ TransitionWrite(c)
    \/ TransitionStamp(c)
    \/ Activity(c)
    \/ NotifyCall(c)
    \/ NotifyReturn(c)
    \/ NotifyRaise(c)
    \/ Cleanup(c)
    \/ CleanupRaise(c)
    \/ Unregister(c)

OnceNext ==
    \/ StartSocket
    \/ StartBind
    \/ StartRunning
    \/ AcceptLoad
    \/ AcceptConnection
    \/ AcceptTimeout
    \/ OnceShutdown
    \/ \E c \in Conns : OnceWorkerStep(c)

OnceSpec == OnceInit /\ [][OnceNext]_vars

\* ------------------------------------------------- the API, called directly
\* A single thread calls the registry, a session or the classifier, the way
\* tests/test_registry.py, tests/test_state.py and tests/test_events.py do.
MaxListeners == 2
ApiTerminals == {None, "term-A"}

Called(call) ==
    /\ ops < MaxOps
    /\ ops' = ops + 1
    /\ last' = call
    /\ listing' = NoListing
    /\ UNCHANGED <<codec, conn, hook, dump, project, friendly>>

\* tracker/registry.py: add_listener
ApiAddListener ==
    /\ listeners < MaxListeners
    /\ listeners' = listeners + 1
    /\ Called(Call("add_listener", "", 0, "", 0, None))
    /\ UNCHANGED <<serverVars, worker, sessions, heap, delivered, notifications,
                   adapterVars, now>>

\* tracker/registry.py: register
ApiRegister(session_id, cwd, terminal_uuid) ==
    /\ IF registry_contains(sessions, session_id)
       THEN /\ Called(Call("register", session_id, 0, cwd, sessions[session_id], None))
            /\ UNCHANGED <<sessions, heap, delivered, now>>
       ELSE /\ heap' = Append(heap, SessionState(session_id, cwd, terminal_uuid, now))
            /\ now' = now + 1
            /\ sessions' = registry_store(sessions, session_id, Len(heap) + 1)
            /\ delivered' = notify(delivered, listeners, "session_registered", Len(heap) + 1)
            /\ Called(Call("register", session_id, 0, cwd, Len(heap) + 1, None))
    /\ UNCHANGED <<serverVars, worker, listeners, notifications, adapterVars>>

\* tracker/registry.py: get
ApiGet(session_id) ==
    /\ Called(Call("get", session_id, 0, "", registry_get(sessions, session_id), None))
    /\ UNCHANGED <<serverVars, worker, registryVars, notifications, adapterVars, now>>

\* tracker/registry.py: unregister
ApiUnregister(session_id) ==
    /\ sessions' = unregister_mapping(sessions, session_id)
    /\ delivered' =
          IF registry_get(sessions, session_id) # 0
          THEN notify(delivered, listeners, "session_unregistered", sessions[session_id])
          ELSE delivered
    /\ Called(Call("unregister", session_id, 0, "", registry_get(sessions, session_id), None))
    /\ UNCHANGED <<serverVars, worker, heap, listeners, notifications, adapterVars, now>>

\* tracker/state.py: transition_to, on a session object the caller holds
ApiTransitionTo(obj, new_state) ==
    /\ heap' = [heap EXCEPT ![obj] = transition_to(@, new_state, now).session]
    /\ now' = IF transition_is_noop(heap[obj], new_state) THEN now ELSE now + 2
    /\ Called(Call("transition_to", "", obj, new_state, 0,
                   transition_to(heap[obj], new_state, now).ret))
    /\ UNCHANGED <<serverVars, worker, sessions, listeners, delivered, notifications,
                   adapterVars>>

\* tracker/state.py: update_activity, on a session object the caller holds
ApiUpdateActivity(obj, activity) ==
    /\ heap' = [heap EXCEPT ![obj] = update_activity(@, activity, now)]
    /\ now' = now + 1
    /\ Called(Call("update_activity", "", obj, activity, 0, None))
    /\ UNCHANGED <<serverVars, worker, sessions, listeners, delivered, notifications,
                   adapterVars>>

\* tracker/events.py: determine_state_from_event
ApiClassify(event_name) ==
    /\ Called(Call("classify", "", 0, event_name, 0, determine_state_from_event(event_name)))
    /\ UNCHANGED <<serverVars, worker, registryVars, notifications, adapterVars, now>>

\* tracker/registry.py: all and by_state, called for every state on one
\* registry state (tests/test_registry.py: test_list_sessions_by_state)
ApiList ==
    /\ ops < MaxOps
    /\ ops' = ops + 1
    /\ last' = Call("list", "", 0, "", 0, None)
    /\ listing' = [all |-> all(sessions),
                   by_state |-> [s \in State |-> by_state(sessions, heap, s)]]
    /\ UNCHANGED <<codec, conn, hook, dump, project, friendly>>
    /\ UNCHANGED <<serverVars, worker, registryVars, notifications, adapterVars, now>>

ApiNext ==
    \/ ApiAddListener
    \/ \E i \in SessionIds, d \in Cwds, t \in ApiTerminals : ApiRegister(i, d, t)
    \/ \E i \in SessionIds : ApiGet(i)
    \/ \E i \in SessionIds : ApiUnregister(i)
    \/ \E o \in 1 .. Len(heap), n \in State : ApiTransitionTo(o, n)
    \/ \E o \in 1 .. Len(heap), m \in Messages : ApiUpdateActivity(o, m)
    \/ \E e \in EventNames : ApiClassify(e)
    \/ ApiList

ApiSpec == Init /\ [][ApiNext]_vars

\* ------------------------------------------------- listeners that raise
\* A _notify without the try: a listener's exception leaves it.
notify_catches_nothing(exc) == FALSE

\* tracker/registry.py: _notify, `except Exception: pass` around each call
notify_catches(exc) == exc \in Exceptions

\* tracker/registry.py: _notify, `for listener in self._listeners`, when the
\* listeners in `raising` raise TypeError: the calls made, each with whether
\* it raised, and the exception that leaves _notify (None: it returns).
notify_run(log, n, event, obj, raising) ==
    LET escaping == {i \in raising \cap (1 .. n) : ~notify_catches("TypeError")}
        stop == IF escaping = {} THEN n
                ELSE CHOOSE i \in escaping : \A j \in escaping : i <= j
    IN  [log |-> log \o [i \in 1 .. stop |->
                            [listener |-> i, event |-> event, session |-> obj,
                             raised |-> i \in raising]],
         raised |-> IF escaping = {} THEN None ELSE "TypeError"]

\* tracker/registry.py: register, with listeners that may raise; `ret` of
\* the call is the exception that left register (None: it returned).
ListenerRegister(session_id, cwd, raising) ==
    /\ IF registry_contains(sessions, session_id)
       THEN /\ Called(Call("register", session_id, 0, cwd, sessions[session_id], None))
            /\ UNCHANGED <<sessions, heap, delivered, now>>
       ELSE LET run == notify_run(delivered, listeners, "session_registered",
                                  Len(heap) + 1, raising)
            IN  /\ heap' = Append(heap, SessionState(session_id, cwd, None, now))
                /\ now' = now + 1
                /\ sessions' = registry_store(sessions, session_id, Len(heap) + 1)
                /\ delivered' = run.log
                /\ Called(Call("register", session_id, 0, cwd,
                               IF run.raised = None THEN Len(heap) + 1 ELSE 0,
                               run.raised))
    /\ UNCHANGED <<serverVars, worker, listeners, notifications, adapterVars>>

\* tracker/registry.py: unregister, with listeners that may raise
ListenerUnregister(session_id, raising) ==
    LET run == IF registry_get(sessions, session_id) # 0
               THEN notify_run(delivered, listeners, "session_unregistered",
                               sessions[session_id], raising)
               ELSE [log |-> delivered, raised |-> None]
    IN  /\ sessions' = unregister_mapping(sessions, session_id)
        /\ delivered' = run.log
        /\ Called(Call("unregister", session_id, 0, "",
                       IF run.raised = None THEN registry_get(sessions, session_id) ELSE 0,
                       run.raised))
        /\ UNCHANGED <<serverVars, worker, heap, listeners, notifications, adapterVars, now>>

ListenerNext ==
    \/ ApiAddListener
    \/ \E i \in SessionIds, d \in Cwds, r \in SUBSET (1 .. listeners) :
          ListenerRegister(i, d, r)
    \/ \E i \in SessionIds, r \in SUBSET (1 .. listeners) : ListenerUnregister(i, r)

ListenerSpec == Init /\ [][ListenerNext]_vars

\* ================================================================== claims
\* Connection c is past the point where handle_message bound `session`, and
\* has not yet removed the entry itself.
Holding(c) ==
    worker[c].pc \in {"terminal", "terminal_set", "transition", "transition_write",
                      "transition_stamp",
                      "activity", "notify", "notify_wait", "cleanup", "unregister"}

\* The handling of connection c failed: nothing sent, undecodable bytes, or
\* the message handler raised.
Failed(c) == worker[c].outcome \in Exceptions \cup {"empty"}

\* Worker c takes the step.
Steps(c) == worker'[c] # worker[c]

\* C1: one bad message never crashes the daemon.  No error of a connection
\* leaves its handler (every one is caught, logged, and the connection
\* closed); the accept loop neither crashes nor returns and, while
\* connections remain, can accept the next one; every well-formed connection
\* that was read has had the message handler called, and its worker can take
\* its next step whatever earlier connections did.
C1_BadMessageNeverCrashes ==
    /\ \A c \in Conns : worker[c].outcome # "escaped"
    /\ loop \in {"start", "bind", "set_running", "check", "accept", "accepting"}
    /\ (loop = "accepting" /\ nconn < MaxConns) => ENABLED AcceptConnection
    /\ \A c \in Conns :
          WellFormed(worker[c].wire) =>
             /\ worker[c].pc \notin {"new", "recv"} => worker[c].invoked
             /\ worker[c].pc \notin {"new", "done"} => ENABLED WorkerStep(c)

\* C1 witness: a connection failed in the message handler, and a connection
\* accepted and read after it was closed has been handled to the end.
C1_Witness ==
    \E c, d \in Conns :
        /\ worker[c].outcome = "AttributeError"
        /\ c \in worker[d].after
        /\ worker[d].outcome = "handled"
        /\ loop = "accept"

\* C2: a message whose payload did not parse is dropped: the step of
\* handle_message on it returns without raising, binds no session, makes no
\* adapter call and leaves the registry, every session and the adapter as
\* they were.
C2_NullPayloadDropped ==
    [][\A c \in Conns :
          (worker[c].wire.payload = "unparsable" /\ worker[c].pc = "handle" /\ Steps(c))
             => /\ UNCHANGED <<sessions, heap, delivered, live, nextId, dismissed>>
                /\ worker'[c].pc = "done"
                /\ worker'[c].outcome = "dropped"
                /\ worker'[c].session = 0
                /\ worker'[c].shows = 0]_vars

\* C2 witness: a null payload was dropped while a session was registered.
C2_Witness ==
    \E c \in Conns :
        /\ worker[c].wire.payload = "unparsable"
        /\ worker[c].outcome = "dropped"
        /\ DOMAIN sessions # {}

\* C3 (as claimed): every worker that has bound `session` for an id holds
\* the object the registry maps that id to, so one Session exists per id.
C3_WorkersHoldRegistryEntry ==
    \A c \in Conns :
        Holding(c) => registry_get(sessions, EventOf(c).session_id) = worker[c].session

\* The connections that carried an event for session id i.
EventsFor(i) ==
    {c \in Conns : WellFormed(worker[c].wire) /\ EventOf(c).session_id = i}

\* C4 (as claimed): when connection a was accepted before connection b, both
\* carry events for the same session and both have been handled, the session
\* is in the state b's event determines and shows b's activity text (a's,
\* when b carries none).
C4_AppliedInAcceptOrder ==
    \A a, b \in Conns :
        (/\ a < b
         /\ worker[a].outcome = "handled" /\ worker[b].outcome = "handled"
         /\ EventOf(a).session_id = EventOf(b).session_id
         /\ EventsFor(EventOf(a).session_id) = {a, b}
         /\ EventOf(a).event_name # "SessionEnd"
         /\ EventOf(b).event_name # "SessionEnd")
        => /\ registry_contains(sessions, EventOf(b).session_id)
           /\ heap[sessions[EventOf(b).session_id]].state =
                 determine_state_from_event(EventOf(b).event_name)
           /\ heap[sessions[EventOf(b).session_id]].activity =
                 IF Truthy(EventOf(b).message) THEN EventOf(b).message
                 ELSE IF Truthy(EventOf(a).message) THEN EventOf(a).message
                 ELSE ""

\* The workers that handled an event on the same session object as c and
\* whose connection was closed before c's handler was called.
Predecessors(c) ==
    {d \in worker[c].after : worker[d].session = worker[c].session}

\* Worker c and the others on its session object handled their events one
\* after another: no two of them overlapped.
OneAfterAnother(c) ==
    /\ worker[c].session # 0
    /\ \A d \in Conns \ {c} :
          worker[d].session = worker[c].session
             => d \in worker[c].after \/ c \in worker[d].after
    /\ \A d, e \in Predecessors(c) :
          d # e => d \in worker[e].after \/ e \in worker[d].after

\* The handle the last call before c's returned on c's session object (0:
\* no call returned one).
PreviousHandle(c) ==
    LET R == {d \in Predecessors(c) : worker[d].handle # 0}
    IN  IF R = {} THEN 0
        ELSE worker[CHOOSE d \in R : \A e \in R \ {d} : e \in worker[d].after].handle

\* C5: a handled event makes exactly one show_persistent call when an
\* adapter is available (none otherwise); the call passes the session's
\* current persistent_notif_id as replaces_id (0 when it has none) and the
\* handle returned is stored in persistent_notif_id; so when the events of a
\* session are handled one after another, each call passes the handle the
\* previous call returned.
C5_ShowPersistentChain ==
    /\ [](\A c \in Conns :
            /\ worker[c].shows <= 1
            /\ worker[c].outcome = "handled"
                  => worker[c].shows = IF notifications THEN 1 ELSE 0
            /\ (worker[c].shows = 1 /\ OneAfterAnother(c))
                  => worker[c].args.replaces_id = PreviousHandle(c))
    /\ [][\A c \in Conns :
            /\ (worker[c].pc = "notify" /\ Steps(c) /\ notifications)
                  => /\ worker'[c].shows = worker[c].shows + 1
                     /\ worker'[c].args.replaces_id =
                           heap[worker[c].session].persistent_notif_id
            /\ (worker[c].pc = "notify_wait" /\ Steps(c)
                    /\ worker'[c].handle # worker[c].handle)
                  => heap'[worker[c].session].persistent_notif_id = worker'[c].handle]_vars

\* C5 witness: the second of two events handled one after another on a
\* session passed the handle the first call returned, and the handle its
\* own call returned is the session's.
C5_Witness ==
    \E c, d \in Conns :
        /\ d \in Predecessors(c)
        /\ worker[d].handle # 0
        /\ worker[c].outcome = "handled"
        /\ worker[c].args.replaces_id = worker[d].handle
        /\ worker[c].handle # 0
        /\ heap[worker[c].session].persistent_notif_id = worker[c].handle

\* The notification handles that are set on session object o.
HandlesSet(o) == {h \in {heap[o].persistent_notif_id, heap[o].popup_notif_id} : h # 0}

\* C6: handling SessionEnd goes on from the notification refresh to the
\* cleanup; the cleanup calls dismiss for each handle that is set on the
\* session (none without an adapter), and the unregister that follows leaves
\* the id absent from the registry, so that get returns none.  When no other
\* worker overlapped, every handle set on the ended session was dismissed.
C6_SessionEndCleansUp ==
    /\ [][\A c \in Conns :
            /\ (worker[c].pc \in {"notify", "notify_wait"} /\ Steps(c)
                    /\ EventOf(c).event_name = "SessionEnd")
                  => worker'[c].pc \in {"notify_wait", "cleanup"}
            /\ (worker[c].pc = "cleanup" /\ Steps(c))
                  => /\ worker'[c].pc = "unregister"
                     /\ IF notifications
                        THEN dismissed' = dismissed \cup HandlesSet(worker[c].session)
                        ELSE dismissed' = dismissed
            /\ (worker[c].pc = "unregister" /\ Steps(c))
                  => /\ ~registry_contains(sessions', EventOf(c).session_id)
                     /\ registry_get(sessions', EventOf(c).session_id) = 0
                     /\ worker'[c].outcome = "handled"]_vars
    /\ [](\A c \in Conns :
            (/\ worker[c].outcome = "handled"
             /\ EventOf(c).event_name = "SessionEnd"
             /\ OneAfterAnother(c)
             /\ notifications)
            => HandlesSet(worker[c].session) \subseteq dismissed)

\* C6 witness: a SessionEnd was handled for a session that an earlier event
\* had registered; its persistent notification was dismissed and its id is
\* no longer in the registry.
C6_Witness ==
    \E c \in Conns :
        /\ worker[c].outcome = "handled"
        /\ EventOf(c).event_name = "SessionEnd"
        /\ Predecessors(c) # {}
        /\ heap[worker[c].session].persistent_notif_id \in dismissed
        /\ registry_get(sessions, EventOf(c).session_id) = 0

\* The API caller makes the call named op in this step.
Calls(op) == ops' = ops + 1 /\ last'.op = op

\* C7: transition_to(session, n) returns none exactly when n is the state
\* the session is in, and then changes no field of any session (state,
\* last_update, needs_attention_since); otherwise it returns the state held
\* before the call and the session's state becomes n.  The state a Stop
\* event asks for, applied to a WORKING session, reports WORKING and leaves
\* NEEDS_ATTENTION.
C7_TransitionTo ==
    [][Calls("transition_to") =>
          /\ (last'.ret = None) <=> (heap[last'.obj].state = last'.arg)
          /\ heap[last'.obj].state = last'.arg => heap' = heap
          /\ heap[last'.obj].state # last'.arg
                => /\ last'.ret = heap[last'.obj].state
                   /\ heap'[last'.obj].state = last'.arg
          /\ (heap[last'.obj].state = "working"
                 /\ last'.arg = determine_state_from_event("Stop"))
                => /\ last'.ret = "working"
                   /\ heap'[last'.obj].state = "needs_attention"]_vars

\* C7 witness: a transition to the state the session is already in returned
\* none, on a session an earlier transition had moved to NEEDS_ATTENTION.
C7_Witness ==
    /\ last.op = "transition_to"
    /\ last.ret = None
    /\ last.arg = "needs_attention"
    /\ heap[last.obj].needs_attention_since # 0

\* C8: the classifier is a lookup with no effect: the four working events
\* give WORKING, the three waiting events NEEDS_ATTENTION, every other name
\* WORKING; SESSION_LIMIT and API_ERROR are never returned, and the
\* registry, the sessions and the adapter are left as they were.
C8_ClassifierTable ==
    [][Calls("classify") =>
          /\ last'.arg \in {"SessionStart", "PreToolUse", "PostToolUse", "UserPromptSubmit"}
                => last'.ret = "working"
          /\ last'.arg \in {"Stop", "SubagentStop", "Notification"}
                => last'.ret = "needs_attention"
          /\ last'.arg \notin {"SessionStart", "PreToolUse", "PostToolUse",
                               "UserPromptSubmit", "Stop", "SubagentStop", "Notification"}
                => last'.ret = "working"
          /\ last'.ret \notin {"session_limit", "api_error"}
          /\ UNCHANGED <<sessions, heap, listeners, delivered, live, nextId, dismissed>>]_vars

\* C8 witness: the end-of-session event was classified WORKING while a
\* session was registered.
C8_Witness ==
    /\ last.op = "classify"
    /\ last.arg = "SessionEnd"
    /\ last.ret = "working"
    /\ DOMAIN sessions # {}

\* C9: register for an id that is present returns the session object the
\* registry holds for it, changes no field of any session, leaves the
\* mapping as it was and makes no listener call.
C9_RegisterIdempotent ==
    [][(Calls("register") /\ last'.id \in DOMAIN sessions) =>
          /\ last'.ret_obj = sessions[last'.id]
          /\ UNCHANGED <<sessions, heap, delivered>>]_vars

\* C9 witness: with a listener subscribed, a session that had left WORKING
\* was registered again with another working directory and came back as it
\* was.
C9_Witness ==
    /\ last.op = "register"
    /\ last.ret_obj # 0
    /\ listeners > 0
    /\ heap[last.ret_obj].cwd # last.arg
    /\ heap[last.ret_obj].state # "working"

\* C10: unregister of a present id removes that entry and no other, returns
\* the session removed and makes one "session_unregistered" call per
\* listener, after which get returns none; unregister of an absent id
\* returns none, changes nothing and makes no listener call.
C10_Unregister ==
    [][Calls("unregister") =>
          IF last'.id \in DOMAIN sessions
          THEN /\ last'.ret_obj = sessions[last'.id]
               /\ DOMAIN sessions' = DOMAIN sessions \ {last'.id}
               /\ \A k \in DOMAIN sessions' : sessions'[k] = sessions[k]
               /\ registry_get(sessions', last'.id) = 0
               /\ delivered' = delivered \o
                     [i \in 1 .. listeners |->
                        [listener |-> i, event |-> "session_unregistered",
                         session |-> sessions[last'.id]]]
               /\ heap' = heap
          ELSE /\ last'.ret_obj = 0
               /\ UNCHANGED <<sessions, heap, delivered>>]_vars

\* C10 witness: with a listener subscribed, a registered session was
\* removed and the listener heard of it.
C10_Witness ==
    /\ last.op = "unregister"
    /\ last.ret_obj # 0
    /\ listeners > 0
    /\ delivered # <<>>
    /\ delivered[Len(delivered)].event = "session_unregistered"
    /\ registry_get(sessions, last.id) = 0

\* C11: by_state partitions all(): the lists by_state returned for the four
\* states on one registry state are pairwise disjoint, together they hold
\* exactly the sessions all() returned, which are the registry's values, and
\* the list for state s holds exactly the registered sessions in state s.
C11_ByStatePartitionsAll ==
    last.op = "list" =>
        /\ \A s, t \in State :
              s # t => listing.by_state[s] \cap listing.by_state[t] = {}
        /\ UNION {listing.by_state[s] : s \in State} = listing.all
        /\ listing.all = {sessions[i] : i \in DOMAIN sessions}
        /\ \A s \in State, i \in DOMAIN sessions :
              sessions[i] \in listing.by_state[s] <=> heap[sessions[i]].state = s

\* C11 witness: the lists were taken of a registry holding two sessions in
\* different states, one of them a state no event produces.
C11_Witness ==
    /\ last.op = "list"
    /\ Cardinality(listing.all) = 2
    /\ listing.by_state[WORKING] # {}
    /\ listing.by_state[SESSION_LIMIT] # {}

\* C12 (as claimed): the terminal handle is first-write-wins: once a session
\* object's terminal_uuid holds a non-empty value, no step changes it.
C12_TerminalFirstWriteWins ==
    [][\A o \in 1 .. Len(heap) :
          Truthy(heap[o].terminal_uuid)
             => heap'[o].terminal_uuid = heap[o].terminal_uuid]_vars

\* C13 (as claimed): once shutdown() has been requested, at any point after
\* serve_forever() was called, serve_forever() eventually returns, and no
\* further connection is accepted.
C13_ShutdownStopsServing ==
    /\ (shutdowns > 0) ~> (loop = "returned")
    /\ [][shutdowns > 0 => nconn' = nconn]_vars

\* C14 (as claimed): shutdown() is safe at whatever step of the accept loop
\* it arrives: no exception leaves serve_forever(), and every worker with a
\* connection in flight, whose peer has sent, can take its next step.
C14_ShutdownSafeAtAnyStep ==
    /\ loop # "accept_raised"
    /\ \A c \in Conns :
          (worker[c].pc \notin {"new", "done"} /\ worker[c].wire.peer # "stalled")
             => ENABLED WorkerStep(c)

\* C15: shutdown() is idempotent: a call is possible in every state (before
\* start(), during it, while serving, after an earlier shutdown()), it
\* leaves the server not running, without a socket and without a file at
\* the socket path, and touches nothing else; a call on a server already in
\* that state changes nothing.
C15_ShutdownIdempotent ==
    /\ [](shutdowns < MaxShutdowns => ENABLED Shutdown)
    /\ [][shutdowns' = shutdowns + 1 =>
             /\ ~running' /\ server' = None /\ path' = "absent"
             /\ UNCHANGED <<loop, nconn, daemonVars>>
             /\ (~running /\ server = None /\ path = "absent")
                   => UNCHANGED <<running, server, path>>]_vars

\* C15 witness: shutdown() was called twice on a server that had accepted a
\* connection, and serve_forever() has returned.
C15_Witness ==
    /\ shutdowns = 2
    /\ nconn > 0
    /\ loop = "returned"
    /\ ~running /\ server = None

\* C16 (as claimed): serve_once() shuts the server down only after exactly
\* one connection was accepted and its handler has run to completion.
C16_ServeOnceHandlesOne ==
    (entry = "serve_once" /\ shutdowns > 0) => (nconn = 1 /\ worker[1].pc = "done")

\* The activation convention holds: the descriptor count is set and numeric,
\* the pid is set, numeric and the daemon's own.
NumericStrings == {"1", "99999", OwnPid}
ActivationValid(env) ==
    /\ "LISTEN_FDS" \in DOMAIN env /\ env["LISTEN_FDS"] \in NumericStrings
    /\ "LISTEN_PID" \in DOMAIN env /\ env["LISTEN_PID"] = OwnPid

\* C17 (as claimed): start() takes one of two paths: when the activation
\* convention holds it listens on the adopted descriptor and no step of it
\* removes, creates or binds the file at the socket path; in every other
\* case it listens on a socket it bound at that path itself.
C17_StartAdoptsOrBinds ==
    /\ []((loop = "started" /\ shutdowns = 0) =>
             IF ActivationValid(environ) THEN server = "adopted"
             ELSE server = "listening" /\ path = "socket")
    /\ [][(ActivationValid(environ) /\ shutdowns' = shutdowns) => path' = path]_vars

\* Worker c handled its event with no other handler running meanwhile:
\* every other connection was closed before c's handler was called, or its
\* handler has not been called yet.
Exclusive(c) ==
    \A d \in Conns \ {c} : d \in worker[c].after \/ worker[d].pc \in {"new", "recv"}

\* Worker c takes the step that ends its notification refresh with nothing
\* displayed: there is no adapter, or show_persistent raised.
EndsRefreshUndisplayed(c) ==
    /\ Steps(c)
    /\ \/ worker[c].pc = "notify" /\ ~notifications
       \/ worker[c].pc = "notify_wait" /\ worker'[c].handle = 0

\* C18: adapter errors are recovered locally.  When show_persistent raises,
\* or there is no adapter, the refresh ends without an exception reaching
\* the handler's caller and without changing the registry, any session
\* (persistent_notif_id keeps its value) or the adapter's state; and for a
\* handler that ran with no other handler alongside, the session is then
\* registered under the event's id, in the state the event determines and
\* with the event's activity text.
C18_AdapterErrorsRecovered ==
    [][\A c \in Conns :
          EndsRefreshUndisplayed(c) =>
             /\ worker'[c].outcome \in {"open", "handled"}
             /\ worker'[c].pc \in {"cleanup", "done"}
             /\ UNCHANGED <<sessions, heap, adapterVars>>
             /\ Exclusive(c) =>
                   /\ registry_get(sessions, EventOf(c).session_id) = worker[c].session
                   /\ heap[worker[c].session].state =
                         determine_state_from_event(EventOf(c).event_name)
                   /\ Truthy(EventOf(c).message) =>
                         heap[worker[c].session].activity = EventOf(c).message]_vars

\* C18 witness: show_persistent raised on the refresh of a session that had
\* a notification, a Stop event with a message text; the handler returned,
\* and the session is registered, needs attention, shows the text and still
\* has its handle.
C18_Witness ==
    \E c \in Conns :
        /\ notifications
        /\ worker[c].shows = 1 /\ worker[c].handle = 0
        /\ worker[c].outcome = "handled"
        /\ EventOf(c).event_name = "Stop"
        /\ registry_get(sessions, EventOf(c).session_id) = worker[c].session
        /\ heap[worker[c].session].state = NEEDS_ATTENTION
        /\ heap[worker[c].session].activity = EventOf(c).message
        /\ Truthy(EventOf(c).message)
        /\ heap[worker[c].session].persistent_notif_id # 0

\* C19: codec round trip: decoding what encode_hook_message(p, e) wrote
\* raises nothing and yields a message whose parsed payload is p, whose raw
\* payload is the payload block that was written, and whose env is e.
C19_CodecRoundTrip ==
    (codec.sender = "hook" /\ codec.decoded) =>
        /\ codec.message.raised = None
        /\ codec.message.claude_data = codec.claude_data
        /\ codec.message.claude_raw = codec.payload
        /\ codec.message.env = codec.env_data

\* C19 witness: an object payload whose string holds a line feed and a
\* quote went through, with an env value holding a backslash and a line feed.
C19_Witness ==
    /\ codec.sender = "hook" /\ codec.decoded
    /\ codec.claude_data.kind = "object"
    /\ \E k \in DOMAIN codec.claude_data.items :
          codec.claude_data.items[k].text = <<LF, DQ>>
    /\ \E k \in DOMAIN codec.env_data.items :
          codec.env_data.items[k].text = <<BS, LF>>

\* C20 (as claimed): decoding a text whose envelope line is valid and whose
\* payload block does not parse raises nothing and returns the envelope
\* fields as written, claude_data None and claude_raw equal to the payload
\* block, unchanged.
C20_MalformedPayloadKept ==
    (codec.sender = "foreign" /\ codec.decoded /\ ~loads(codec.payload).ok) =>
        /\ codec.message.raised = None
        /\ codec.message.version = JNum(ToString(PROTOCOL_VERSION))
        /\ codec.message.env = codec.env_data
        /\ codec.message.claude_size = JNum(ToString(Len(codec.payload)))
        /\ codec.message.claude_data = JNone
        /\ codec.message.claude_raw = codec.payload

\* Session object o is between the two halves of a transition: a worker has
\* written its state and not yet its needs_attention_since.
MidTransition(o) ==
    \E c \in Conns : worker[c].session = o /\ worker[c].pc = "transition_stamp"

\* C29 (as claimed): for every session in the registry that no worker is in
\* the middle of moving to another state, needs_attention_since is set if and
\* only if the state is NEEDS_ATTENTION.
C29_AttentionSinceIffAttention ==
    \A i \in DOMAIN sessions :
        ~MidTransition(sessions[i]) =>
            ((heap[sessions[i]].needs_attention_since # 0)
                <=> (heap[sessions[i]].state = NEEDS_ATTENTION))

EnvelopeParses(text) ==
    LET v == loads(split_first_newline(strip(text))[1])
    IN  /\ v.ok
        /\ v.value.kind = "object"
        /\ {<<"version">>, <<"timestamp">>, <<"claude_size">>} \subseteq DOMAIN v.value.items

\* C28: on one connection the message handler is called at most once; when
\* the connection is done it was called exactly if the peer sent at least a
\* byte and the bytes decode (valid UTF-8, an envelope line that parses with
\* version, timestamp and claude_size), and then with the decoded message;
\* no error leaves the handler's thread; and the connection is closed: once
\* the peer has closed, the thread can take its next step wherever it is
\* (the decoder returns a message or raises an exception the except clause
\* catches), and its last step is the close.
C28_HandlerOnceIffDecodes ==
    /\ conn.invoked <= 1
    /\ conn.raised # "escaped"
    /\ conn.invoked = 1 => conn.message.raised = None
    /\ conn.pc \in {"recv", "handler", "finally"} => ENABLED ConnStep
    /\ conn.pc = "decode" =>
          \/ ~conn.utf8
          \/ decoded(decode_hook_text(conn.data))
          \/ catches(decode_hook_text(conn.data).raised)
    /\ conn.closed <=> conn.pc = "done"
    /\ conn.pc = "done" =>
          (conn.invoked = 1 <=> (conn.text # <<>> /\ conn.utf8 /\ EnvelopeParses(conn.text)))

\* C28 witness: a connection whose envelope lacks only env, sent after a
\* stray line feed or not, with a payload block that does not parse, had its
\* handler called once, the handler raised, and the connection is closed.
C28_Witness ==
    /\ conn.pc = "done" /\ conn.closed
    /\ conn.invoked = 1
    /\ conn.raised = "AttributeError"
    /\ conn.message.claude_data = JNone
    /\ conn.message.claude_raw = <<"{">>
    /\ conn.message.env = JObj(<<>>)

\* seg is the trailing path segment of cwd once trailing slashes are
\* stripped: a non-empty run without a separator that starts the text or
\* follows a separator, and is followed by separators only.
TrailingSegment(cwd, seg) ==
    \E p \in 0 .. Len(cwd), q \in 0 .. Len(cwd) :
        /\ p < q
        /\ seg = SubSeq(cwd, p + 1, q)
        /\ \A k \in p + 1 .. q : cwd[k] # "/"
        /\ p = 0 \/ cwd[p] = "/"
        /\ \A k \in q + 1 .. Len(cwd) : cwd[k] = "/"

\* cwd is empty or consists only of separators.
OnlySeparators(cwd) == \A k \in 1 .. Len(cwd) : cwd[k] = "/"

\* C23 (as claimed): project_name is the trailing path segment of cwd after
\* trailing slashes are stripped, and the cwd string itself when cwd is empty
\* or consists only of separators.
C23_ProjectName ==
    project.read =>
        IF OnlySeparators(project.cwd)
        THEN project.project_name = project.cwd
        ELSE TrailingSegment(project.cwd, project.project_name)

C27_MalformedInputNoEvent ==
    [][hook.parse_error =>
          /\ UNCHANGED <<sessions, heap, adapterVars>>
          /\ \A c \in Conns : worker'[c].shows = 0]_vars

\* C22 (as claimed): no step of dump_state changes the registry, a session
\* or the adapter; and the finished dump has as many session lines as its
\* header counts, also when workers register and unregister sessions while
\* it runs.
C22_DumpAltersNothing ==
    /\ [][dump' # dump =>
            UNCHANGED <<sessions, heap, listeners, delivered, adapterVars, worker>>]_vars
    /\ [](dump.pc = "done" => dump.count = Cardinality(dump.lines))

\* The workers that bound session object o in handle_message.
Users(o) == {d \in Conns : worker[d].session = o}

\* The orders in which the events of the workers in T can be applied one
\* after another.
Orders(T) ==
    {f \in [1 .. Cardinality(T) -> T] : \A i, j \in DOMAIN f : i # j => f[i] # f[j]}

\* The (state, activity) pair of a session after the events of order[1..i]
\* were applied to it whole, one after another, from the pair it was
\* constructed with.
RECURSIVE PairAfter(_, _)
PairAfter(order, i) ==
    IF i = 0 THEN [state |-> WORKING, activity |-> ""]
    ELSE [state |-> determine_state_from_event(EventOf(order[i]).event_name),
          activity |-> IF Truthy(EventOf(order[i]).message)
                       THEN EventOf(order[i]).message
                       ELSE PairAfter(order, i - 1).activity]

\* The pairs session object o holds at the instants where a whole number of
\* events has been applied, in any order.
SerialPairs(o) ==
    {PairAfter(order, Len(order)) : order \in UNION {Orders(T) : T \in SUBSET Users(o)}}

\* C24 (as claimed): the (state, activity) pair passed to a show_persistent
\* call is one the session held after a whole number of events had been
\* applied, never one event's state with another event's activity.
C24_ShowPersistentSnapshot ==
    \A c \in Conns :
        worker[c].shows > 0 =>
            [state |-> worker[c].args.state, activity |-> worker[c].args.activity]
                \in SerialPairs(worker[c].session)

\* The adapter created a notification only when asked with replaces_id 0,
\* and answered every other call with the id it was given.
UpdatesInPlace ==
    \A c \in Conns :
        (worker[c].handle # 0 /\ worker[c].args.replaces_id # 0)
            => worker[c].handle = worker[c].args.replaces_id

\* The notifications created for session object o that are not dismissed.
Undismissed(o) == ({worker[c].handle : c \in Users(o)} \ {0}) \cap live

\* C25 (as claimed): with an adapter that updates in place, a session never
\* has more than one undismissed notification, and its persistent_notif_id
\* names the one it has.
C25_SinglePersistentNotification ==
    UpdatesInPlace =>
        \A o \in 1 .. Len(heap) :
            /\ Cardinality(Undismissed(o)) <= 1
            /\ Undismissed(o) # {} => heap[o].persistent_notif_id \in Undismissed(o)

\* Worker c takes this step, and it handles an event for session id b.
HandlesFor(c, b) ==
    /\ worker'[c] # worker[c]
    /\ WellFormed(worker[c].wire)
    /\ EventOf(c).session_id = b

\* The workers that handled an event for session id b to the end, and
\* whether one is still at it.
HandledFor(b) ==
    {c \in Conns : /\ WellFormed(worker[c].wire)
                   /\ EventOf(c).session_id = b
                   /\ worker[c].outcome = "handled"}
InFlightFor(b) ==
    \E c \in Conns : /\ WellFormed(worker[c].wire)
                     /\ EventOf(c).session_id = b
                     /\ worker[c].pc \notin {"new", "done"}

\* C30: sessions are isolated.  A step that changes a field of a session
\* object, or that removes or replaces the registry's entry for an id, is a
\* step of a worker handling an event for that very id; and once the events
\* for an id are handled, the state of its registered session is the one
\* determined by an event for that id (the one event, when there was one),
\* whatever was handled for other ids.
C30_SessionsIsolated ==
    /\ [][/\ \A o \in 1 .. Len(heap) :
                heap'[o] # heap[o] => \E c \in Conns : HandlesFor(c, heap[o].session_id)
          /\ \A b \in DOMAIN sessions :
                (b \notin DOMAIN sessions' \/ sessions'[b] # sessions[b])
                    => \E c \in Conns : HandlesFor(c, b)]_vars
    /\ [](\A b \in DOMAIN sessions :
            (HandledFor(b) # {} /\ ~InFlightFor(b))
                => heap[sessions[b]].state \in
                      {determine_state_from_event(EventOf(c).event_name) : c \in HandledFor(b)})

\* Two sessions after divergent events from separate connections: "s1" was
\* sent Stop and needs attention, "s2" was registered by a PreToolUse and
\* works, and both are registered.
C30_Witness ==
    /\ \A c \in Conns : worker[c].outcome = "handled"
    /\ {EventOf(c).session_id : c \in Conns} = {"s1", "s2"}
    /\ DOMAIN sessions = {"s1", "s2"}
    /\ heap[sessions["s1"]].state = NEEDS_ATTENTION
    /\ heap[sessions["s2"]].state = WORKING
    /\ heap[sessions["s2"]].session_id = "s2"

\* Connection c's peer has connected and never closes: its worker is inside
\* recv().
Stalled(c) == worker[c].pc = "recv" /\ worker[c].wire.peer = "stalled"

\* C31: a stalled reporter blocks nobody.  While a connection's peer never
\* closes, the loop at accept() with a free slot can accept the next
\* connection, and every other accepted connection's handler runs to its
\* end.
C31_StalledPeerBlocksNobody ==
    /\ [](\A s \in Conns :
            (Stalled(s) /\ loop = "accepting" /\ server = "listening" /\ nconn < MaxConns)
                => ENABLED AcceptServerConnection)
    /\ \A s, c \in Conns :
          (Stalled(s) /\ worker[c].pc = "recv" /\ ~Stalled(c)) ~> (worker[c].pc = "done")
    /\ \A s \in Conns : [](Stalled(s) => [](Stalled(s)))

\* The first connection stalls; the second was accepted after it and its
\* event is handled.
C31_Witness ==
    /\ Stalled(1)
    /\ worker[2].pc = "done"
    /\ worker[2].outcome = "handled"

\* C32 (as claimed): a shutdown() removes the file at the socket path if and
\* only if this server created it by binding in start(), and removes nothing
\* when the activation convention holds (the listening socket is the
\* supervisor's).
C32_ShutdownRemovesOwnFileOnly ==
    [][shutdowns' = shutdowns + 1 =>
          /\ path' # path <=> path = "socket"
          /\ ActivationValid(environ) => path' = path]_vars

\* The event carries a message text, and not the empty one.
HasText(event) == event.message \notin {None, ""}

\* The connections whose handler is past its activity update on session
\* object o with a non-empty message; connections are numbered in the order
\* they were accepted.
Spoke(o) ==
    {c \in Conns : /\ worker[c].session = o
                   /\ worker[c].pc \in {"notify", "notify_wait", "cleanup", "unregister", "done"}
                   /\ HasText(EventOf(c))}

LastSpoken(o) ==
    IF Spoke(o) = {} THEN ""
    ELSE EventOf(CHOOSE c \in Spoke(o) : \A d \in Spoke(o) : d <= c).message

\* C33: the activity is the last non-empty message.  Only the activity
\* update of a handler whose event carries a non-empty message changes a
\* session's activity, to that message; the update of a handler whose event
\* has no message or an empty one changes no field of any session; and with
\* events applied one after another, a session's activity is the message of
\* the latest event for it that carried a non-empty one, the empty string
\* when none did.
C33_ActivityIsLastMessage ==
    /\ [][/\ \A o \in 1 .. Len(heap) :
                heap'[o].activity # heap[o].activity =>
                    \E c \in Conns : /\ worker[c].pc = "activity"
                                     /\ worker'[c].pc = "notify"
                                     /\ worker[c].session = o
                                     /\ HasText(EventOf(c))
                                     /\ heap'[o].activity = EventOf(c).message
          /\ \A c \in Conns :
                (worker[c].pc = "activity" /\ worker'[c].pc = "notify") =>
                    IF HasText(EventOf(c))
                    THEN heap'[worker[c].session].activity = EventOf(c).message
                    ELSE heap' = heap]_vars
    /\ [](\A o \in 1 .. Len(heap) : heap[o].activity = LastSpoken(o))

\* The session registered without a message was sent "m1" and then an event
\* with an empty message: its activity is still "m1".
C33_Witness ==
    /\ \A c \in Conns : worker[c].pc = "done" /\ worker[c].session = 1
    /\ EventOf(1).message = "m1"
    /\ EventOf(2).message = ""
    /\ sessions = registry_store(EmptyDict, "s1", 1)
    /\ heap[1].activity = "m1"

\* Text t reads as a base-16 integer: digits, after a sign or without one.
Numeral16(t) ==
    /\ t # <<>>
    /\ \A i \in 1 .. Len(t) : t[i] \in DOMAIN HexDigit \/ (i = 1 /\ t[i] = "+")
    /\ t # <<"+">>

\* The first 16 characters of the id without its dashes are two 8-character
\* base-16 integers.
TwoHexHalves(session_id) ==
    LET clean == remove_dashes(session_id)
    IN  /\ Len(clean) >= 16
        /\ Numeral16(SubSeq(clean, 1, 8))
        /\ Numeral16(SubSeq(clean, 9, 16))

Listed(seq) == {seq[i] : i \in 1 .. Len(seq)}

\* C36 (as claimed): generate_friendly_name never raises and returns
\* adjective, dash, noun with both words from the lists, for every id; it
\* uses the hexadecimal seeds exactly when the first 16 characters of the
\* dash-stripped id are two 8-character base-16 integers, and the seeds of
\* the hash otherwise.
C36_FriendlyNameTotal ==
    friendly.called =>
        /\ friendly.ret.raised = None
        /\ Len(friendly.ret.name) = 3
        /\ friendly.ret.name[1] \in Listed(ADJECTIVES)
        /\ friendly.ret.name[2] = "-"
        /\ friendly.ret.name[3] \in Listed(NOUNS)
        /\ friendly.ret.seeds = IF TwoHexHalves(friendly.session_id) THEN "hex" ELSE "hash"

\* C34: the friendly name is a function of the id and never changes.  Every
\* session object, registered or not any more, has the friendly_name that
\* generate_friendly_name returns for its session_id, and no step changes
\* the friendly_name or the session_id of a session object.
C34_FriendlyNameFixed ==
    /\ [](\A o \in 1 .. Len(heap) :
            /\ generate_friendly_name(IdText(heap[o].session_id)).raised = None
            /\ heap[o].friendly_name =
                  generate_friendly_name(IdText(heap[o].session_id)).name)
    /\ [](\A id \in DOMAIN sessions : heap[sessions[id]].session_id = id)
    /\ [][\A o \in 1 .. Len(heap) :
            /\ heap'[o].friendly_name = heap[o].friendly_name
            /\ heap'[o].session_id = heap[o].session_id]_vars

\* An id was registered, ended and registered again: the second session
\* object went through a transition, an activity update and a notification
\* refresh, and has the name the first one had.
C34_Witness ==
    /\ Len(heap) = 2
    /\ heap[1].session_id = heap[2].session_id
    /\ heap[1].friendly_name = heap[2].friendly_name
    /\ Len(heap[2].friendly_name) = 3
    /\ heap[2].state = NEEDS_ATTENTION
    /\ heap[2].activity # ""
    /\ heap[2].persistent_notif_id # 0
    /\ sessions = registry_store(EmptyDict, heap[2].session_id, 2)

\* The listener calls this step adds to the log.
NewCalls == SubSeq(delivered', Len(delivered) + 1, Len(delivered'))

\* C35: a listener that raises does not break the registry.  A register or
\* unregister returns (no exception leaves it) with the mapping updated and
\* the session as its result, and when it announces an event the calls it
\* adds are one per listener, in subscription order, each for that event
\* and session, whichever of them raised: every other listener is called
\* once and the one that raised is not called again.
C35_ListenerErrorsSwallowed ==
    [][(Calls("register") \/ Calls("unregister")) =>
          /\ last'.ret = None
          /\ SubSeq(delivered', 1, Len(delivered)) = delivered
          /\ Calls("register") =>
                /\ last'.id \in DOMAIN sessions'
                /\ last'.ret_obj = sessions'[last'.id]
                /\ \A k \in DOMAIN sessions : sessions'[k] = sessions[k]
          /\ Calls("unregister") =>
                /\ last'.id \notin DOMAIN sessions'
                /\ last'.ret_obj = registry_get(sessions, last'.id)
                /\ \A k \in DOMAIN sessions' : sessions'[k] = sessions[k]
          /\ IF (last'.id \in DOMAIN sessions) = Calls("unregister")
             THEN /\ Len(NewCalls) = listeners
                  /\ \A i \in 1 .. listeners :
                        /\ NewCalls[i].listener = i
                        /\ NewCalls[i].event = IF Calls("register") THEN "session_registered"
                                               ELSE "session_unregistered"
                        /\ NewCalls[i].session = IF Calls("register") THEN sessions'[last'.id]
                                                 ELSE sessions[last'.id]
             ELSE NewCalls = <<>>]_vars

\* The first of two listeners raised when a session was registered and the
\* second when it was removed: each call of the registry returned the
\* session and both listeners heard both events, once each.
C35_Witness ==
    /\ last.op = "unregister"
    /\ last.ret_obj # 0
    /\ sessions = EmptyDict
    /\ Len(delivered) = 4
    /\ delivered[1].raised /\ ~delivered[2].raised
    /\ ~delivered[3].raised /\ delivered[4].raised
    /\ delivered[2].event = "session_registered"
    /\ delivered[3].event = "session_unregistered"

\* No handler is running: every connection is not accepted yet, waits for
\* its peer's bytes, or is closed.
WorkersIdle == \A c \in Conns : worker[c].pc \in {"new", "recv", "done"}

\* The session objects in the registry, and the notifications shown for one
\* of them (what show_persistent returned to a handler working on it).
Registered == {sessions[id] : id \in DOMAIN sessions}
ShownForRegistered ==
    {worker[c].handle : c \in {d \in Conns : worker[d].session \in Registered}}

\* C37 (as claimed): whenever no handler is running, every notification on
\* display was shown for a session that is in the registry.
C37_NoNotificationOutlivesSession == WorkersIdle => live \subseteq ShownForRegistered

\* C38: the daemon knows two states only.  The classifier returns WORKING or
\* NEEDS_ATTENTION for every event name, and every session object the
\* daemon has constructed, in the registry or removed from it, is in one of
\* the two at every moment: none is ever in SESSION_LIMIT or API_ERROR.
C38_OnlyTwoStatesReached ==
    /\ \A e \in EventNames : determine_state_from_event(e) \in {WORKING, NEEDS_ATTENTION}
    /\ \A o \in 1 .. Len(heap) : heap[o].state \in {WORKING, NEEDS_ATTENTION}

\* A Stop was handled for one session, which needs attention, and a
\* SessionEnd, an event outside both sets, for another, which was working
\* when it was removed.
C38_Witness ==
    /\ \A c \in Conns : worker[c].outcome = "handled"
    /\ EventOf(1).event_name = "Stop"
    /\ EventOf(2).event_name = "SessionEnd"
    /\ EventOf(1).session_id # EventOf(2).session_id
    /\ DOMAIN sessions = {EventOf(1).session_id}
    /\ heap[sessions[EventOf(1).session_id]].state = NEEDS_ATTENTION
    /\ heap[worker[2].session].state = WORKING

\* Connection c carries a well-formed envelope and a payload that is JSON
\* but no object.
NonObject(c) ==
    worker[c].wire.peer = "message" /\ worker[c].wire.payload \in {"null", "non_object"}

\* C39: a payload that is JSON but no object changes nothing.  No step of
\* its handler creates, changes or removes a session, calls a listener or
\* the adapter, or touches the server; the handler ends with the message
\* dropped (null) or with an AttributeError that is caught (array, string,
\* number, boolean), never with an exception leaving the thread; and the
\* accept loop afterwards is neither ended nor unable to accept.
C39_NonObjectPayloadIgnored ==
    /\ [][\A c \in Conns :
             (NonObject(c) /\ Steps(c)) =>
                /\ UNCHANGED <<registryVars, adapterVars, serverVars>>
                /\ worker'[c].session = 0
                /\ worker'[c].shows = 0
                /\ worker'[c].handle = 0]_vars
    /\ [](\A c \in Conns :
            (NonObject(c) /\ worker[c].pc = "done") =>
                /\ worker[c].outcome =
                      IF worker[c].wire.payload = "null" THEN "dropped" ELSE "AttributeError"
                /\ loop \in {"check", "accept", "accepting"}
                /\ (loop = "accepting" /\ nconn < MaxConns) => ENABLED AcceptConnection)

\* An array was sent on the first connection and its handler has ended; the
\* connection accepted after it registered a session, the only one.
C39_Witness ==
    /\ worker[1].wire.payload = "non_object"
    /\ worker[1].outcome = "AttributeError"
    /\ 1 \in worker[2].after
    /\ worker[2].outcome = "handled"
    /\ DOMAIN sessions # {}
    /\ Len(heap) = 1

=============================================================================
